---- MODULE Spec2Model ----
(***************************************************************************)
(* Behaviour layer of the Arkadi Clean marketing site (src/js/main.js).    *)
(*                                                                         *)
(* The widgets are independent and each is modelled under its own          *)
(* specification:                                                          *)
(*   Spec           the contact form (ContactForm): field validation, the  *)
(*                  debounced error clearing, submit handling and the      *)
(*                  asynchronous submission with its cleanup;              *)
(*   FairSpec       Spec with the fairness of the submission timer;        *)
(*   SliderSpec     the before/after comparison sliders                    *)
(*                  (PortfolioGallery.initBeforeAfterSliders);             *)
(*   ValidatorSpec  validateField applied to single fields;                *)
(*   RevealSpec     the reveal-on-scroll observer (ScrollAnimations);      *)
(*   AppSpec        initializeApp over pages that lack some elements;      *)
(*   MenuSpec       the mobile menu (MobileMenu);                          *)
(*   RateSpec       the debounce and throttle wrappers on their own;       *)
(*   ScrollSpec     the throttled scroll listeners (HeaderScrollEffect,    *)
(*                  Analytics.trackScrollDepth).                           *)
(* A widget's variables stay at their initial values under the other       *)
(* widgets' specifications. Spec and MenuSpec start right after            *)
(* initializeApp, while the cool-down of the header's initial check runs,  *)
(* and let the page scroll where a handler asks for it; the specifications *)
(* of the other widgets start once that cool-down has run and leave the    *)
(* page at the top.                                                        *)
(***************************************************************************)
EXTENDS Integers, Sequences, FiniteSets

VARIABLES
  form,            \* the form's fields in document order (fixed by the markup)
  value,           \* field index -> field.value, a sequence of characters
  errClass,        \* field index -> the field carries class "error"
  ariaInvalid,     \* field index -> the aria-invalid attribute ("" when absent)
  errText,         \* field index -> textContent of the #<name>-error element
  clearTimer,      \* field index -> the debounce timer of the input listener is armed
  focus,           \* index of the focused field, 0 when focus is elsewhere
  btnDisabled,     \* submitButton.disabled
  btnText,         \* submitButton.textContent
  pending,         \* submitForm calls awaiting simulateSubmission: their originalText, oldest first
  successBanners,  \* number of .success-message elements in the form
  errorBanners,    \* number of .error-message elements in the form
  formEv,          \* the handler that ran last on the form
  rectWidth,       \* container.getBoundingClientRect().width of every slider
  isDragging,      \* slider -> the closure's isDragging flag
  left,            \* slider -> sliderHandle.style.left as a percentage, Unset before any write
  clip,            \* slider -> the percentage in afterImage.style.clipPath, Unset before any write
  ariaValueNow,    \* slider -> the container's aria-valuenow attribute
  sliderEv,        \* the event dispatched last on the gallery
  vField,          \* the field handed to validateField
  vRaw,            \* its field.value
  vResult,         \* the message validateField chose, "unchecked" before the call
  ioAvailable,     \* 'IntersectionObserver' in window
  intersecting,    \* reveal target -> it meets the observer's threshold now
  lastReported,    \* reveal target -> the isIntersecting the observer reported last
  observed,        \* the observer's observation targets
  queued,          \* the entries queued for the next observer callback
  revealed,        \* reveal target -> it carries class "animate-fade-in-up"
  reveals,         \* reveal target -> number of callbacks that revealed it
  revealEv,        \* the step taken last by the reveal observer
  dom,             \* which elements the page holds
  started,         \* number of constructors initializeApp has called
  initialized,     \* the components whose constructor returned
  logged,          \* the errors initializeApp caught and logged
  raised,          \* the errors no handler caught
  appEv,           \* the step taken last on the page
  menuActive,      \* the overlay carries class "active"
  ariaHidden,      \* the overlay's aria-hidden attribute
  ariaExpanded,    \* the trigger's aria-expanded attribute
  bodyOverflow,    \* document.body.style.overflow
  menuFocus,       \* document.activeElement outside the form: "trigger", an
                   \* element of the overlay, "main", or "body" (also while a
                   \* form field holds the focus)
  focusTimers,     \* number of pending 100 ms focus timers of openMenu
  resizeTimer,     \* the debounce timer of the resize listener is armed
  innerWide,       \* window.innerWidth > 768
  menuEv,          \* the handler that ran last on the menu
  dWait,           \* debounce: its wait, in ticks
  dArmed,          \* debounce: the timer held in `timeout` is pending
  dSince,          \* debounce: ticks since that timer was set, up to dWait
  dArgs,           \* debounce: the args in the closure of that timer
  dInvoked,        \* debounce: calls of func since the last trigger
  dGot,            \* debounce: the args func was called with last
  tLimit,          \* throttle: its limit, in ticks
  tIn,             \* throttle: inThrottle
  tSince,          \* throttle: ticks since the cool-down timer was set, up to tLimit
  tCalled,         \* throttle: func has been called
  tGot,            \* throttle: the args func was called with last
  rateEv,          \* the step taken last on the two wrappers
  pageYOffset,     \* window.pageYOffset (= window.scrollY), in pixels
  headerScrolled,  \* the header carries class "scrolled"
  headerThrottle,  \* inThrottle of the header's scroll listener
  maxScroll,       \* trackScrollDepth's maxScroll
  tracked,         \* the milestones whose tracked_<m> flag is set
  reported,        \* milestone -> number of trackEvent calls for it
  depthThrottle,   \* inThrottle of trackScroll
  scrollTarget,    \* the offset a smooth scroll in progress is heading for, NoTarget when none is
  scrollDue        \* the page was moved by a call and its scroll event is not dispatched yet

formVars == <<form, value, errClass, ariaInvalid, errText, clearTimer, focus,
              btnDisabled, btnText, pending, successBanners, errorBanners, formEv>>
sliderVars == <<rectWidth, isDragging, left, clip, ariaValueNow, sliderEv>>
validatorVars == <<vField, vRaw, vResult>>
revealVars == <<ioAvailable, intersecting, lastReported, observed, queued, revealed,
                reveals, revealEv>>
appVars == <<dom, started, initialized, logged, raised, appEv>>
menuVars == <<menuActive, ariaHidden, ariaExpanded, bodyOverflow, menuFocus,
              focusTimers, resizeTimer, innerWide, menuEv>>
rateVars == <<dWait, dArmed, dSince, dArgs, dInvoked, dGot, tLimit, tIn, tSince,
              tCalled, tGot, rateEv>>
scrollVars == <<pageYOffset, headerScrolled, headerThrottle, maxScroll, tracked,
                reported, depthThrottle, scrollTarget, scrollDue>>
vars == <<formVars, sliderVars, validatorVars, revealVars, appVars, menuVars,
          rateVars, scrollVars>>

\* What a handler of one widget leaves alone: the other widgets.
\* The menu's variables but the focus, and what a handler that moves the focus
\* between the form and the rest of the page, or scrolls the page, leaves alone.
menuRest == <<menuActive, ariaHidden, ariaExpanded, bodyOverflow, focusTimers,
              resizeTimer, innerWide, menuEv>>
outsideFormAndFocus == <<sliderVars, validatorVars, revealVars, appVars, menuRest,
                         rateVars>>
outsideMenuFormAndScroll == <<sliderVars, validatorVars, revealVars, appVars, rateVars>>
outsideMenuAndForm == <<outsideMenuFormAndScroll, scrollVars>>
outsideForm == <<sliderVars, validatorVars, revealVars, appVars, menuVars,
                 rateVars, scrollVars>>
outsideSlider == <<formVars, validatorVars, revealVars, appVars, menuVars,
                   rateVars, scrollVars>>
outsideValidator == <<formVars, sliderVars, revealVars, appVars, menuVars,
                      rateVars, scrollVars>>
outsideReveal == <<formVars, sliderVars, validatorVars, appVars, menuVars,
                   rateVars, scrollVars>>
outsideRate == <<formVars, sliderVars, validatorVars, revealVars, appVars, menuVars,
                 scrollVars>>
outsideScroll == <<formVars, sliderVars, validatorVars, revealVars, appVars, menuVars,
                   rateVars>>

\* ------------------------------------------------------------------ bounds

\* Submissions awaiting their result plus banners awaiting removal, at most.
MaxInFlight == 2

\* How far, in pixels, the pointer travels beyond the containers during a drag.
Overshoot == 1

\* Length of the longest string enumerated character by character.
MaxTyped == 5

\* Focus timers of openMenu pending at once, at most.
MaxFocusTimers == 2

\* The longest wait of a debounced and limit of a throttled function, in ticks.
MaxWait == 3

\* ------------------------------------------------------------- characters

Digits == {"0", "1", "2", "3", "4", "5", "6", "7", "8", "9"}

\* The regular expression class \s, which is also what trim() strips: space,
\* tab, line feed, form feed, carriage return, vertical tab (U+000B), no-break
\* space (U+00A0), U+1680 and U+FEFF, the last four written as the characters
\* themselves. Its members U+2000..U+200A, U+2028, U+2029, U+202F, U+205F and
\* U+3000 cannot be written in a TLA+ string and are not among the characters
\* the model types.
IsSpace(c) == c \in {" ", "\t", "\n", "\f", "\r", "", " ", " ", "﻿"}

\* String.prototype.trim
RECURSIVE TrimLeft(_)
TrimLeft(s) ==
  IF s # <<>> /\ IsSpace(Head(s)) THEN TrimLeft(Tail(s)) ELSE s

RECURSIVE TrimRight(_)
TrimRight(s) ==
  IF s # <<>> /\ IsSpace(s[Len(s)]) THEN TrimRight(SubSeq(s, 1, Len(s) - 1)) ELSE s

Trim(s) == TrimRight(TrimLeft(s))

\* ---------------------------------------------------------- the validators

\* [^\s@]
EmailAtom(c) == ~IsSpace(c) /\ c # "@"

\* One step of the automaton of /^[^\s@]+@[^\s@]+\.[^\s@]+$/. Its states:
\* 0 start, 1 inside the local part, 2 after "@", 3 inside the text before the
\* dot, 4 after the dot, 5 inside the text after the dot (accepting).
EmailStep(q, c) ==
  CASE q = 0 -> IF EmailAtom(c) THEN {1} ELSE {}
    [] q = 1 -> (IF EmailAtom(c) THEN {1} ELSE {}) \cup (IF c = "@" THEN {2} ELSE {})
    [] q = 2 -> IF EmailAtom(c) THEN {3} ELSE {}
    [] q = 3 -> (IF EmailAtom(c) THEN {3} ELSE {}) \cup (IF c = "." THEN {4} ELSE {})
    [] q = 4 -> IF EmailAtom(c) THEN {5} ELSE {}
    [] q = 5 -> IF EmailAtom(c) THEN {5} ELSE {}

RECURSIVE EmailRun(_, _)
EmailRun(qs, s) ==
  IF s = <<>> THEN qs
  ELSE EmailRun(UNION {EmailStep(q, Head(s)) : q \in qs}, Tail(s))

\* Mutant of isValidEmail: the pattern asks for no dot, /^[^\s@]+@[^\s@]+$/.
isValidEmailNoDot(email) == 3 \in EmailRun({0}, email)

isValidEmail(email) == 5 \in EmailRun({0}, email)

\* phone.replace(/[\s\-\(\)]/g, '')
RECURSIVE CleanPhone(_)
CleanPhone(s) ==
  IF s = <<>> THEN <<>>
  ELSE IF IsSpace(Head(s)) \/ Head(s) \in {"-", "(", ")"} THEN CleanPhone(Tail(s))
  ELSE <<Head(s)>> \o CleanPhone(Tail(s))

PhonePrefixes == {<<>>, <<"+", "3", "5", "9">>, <<"3", "5", "9">>, <<"0">>}

StartsWith(s, p) == Len(p) <= Len(s) /\ SubSeq(s, 1, Len(p)) = p

\* /^(\+359|359|0)?\s?[0-9]{8,9}$/ on a string: an optional prefix, an optional
\* white-space character, then 8 or 9 digits up to the end.
PhoneRegexTest(s) ==
  \E p \in PhonePrefixes :
    /\ StartsWith(s, p)
    /\ \E sp \in {0, 1} :
         /\ Len(s) >= Len(p) + sp
         /\ sp = 1 => IsSpace(s[Len(p) + 1])
         /\ LET rest == SubSeq(s, Len(p) + sp + 1, Len(s))
            IN  /\ Len(rest) \in 8..9
                /\ \A k \in 1..Len(rest) : rest[k] \in Digits

\* Mutant of isValidPhone: the pattern is tested on the string as typed.
isValidPhoneUncleaned(phone) == PhoneRegexTest(phone)

isValidPhone(phone) == PhoneRegexTest(CleanPhone(phone))

\* Mutant of ErrorMessage: the name rule is tried before the email and tel rules.
ErrorMessageNameFirst(field, raw) ==
  LET v == Trim(raw)
  IN  IF field.required /\ v = <<>> THEN "required"
      ELSE IF field.name = "name" /\ v # <<>> /\ Len(v) < 2 THEN "short"
      ELSE IF field.type = "email" /\ v # <<>> /\ ~isValidEmail(v) THEN "email"
      ELSE IF field.type = "tel" /\ v # <<>> /\ ~isValidPhone(v) THEN "phone"
      ELSE ""

\* Mutant of ErrorMessage: the name rule measures field.value, not the trimmed value.
ErrorMessageRawLength(field, raw) ==
  LET v == Trim(raw)
  IN  IF field.required /\ v = <<>> THEN "required"
      ELSE IF field.type = "email" /\ v # <<>> /\ ~isValidEmail(v) THEN "email"
      ELSE IF field.type = "tel" /\ v # <<>> /\ ~isValidPhone(v) THEN "phone"
      ELSE IF field.name = "name" /\ v # <<>> /\ Len(raw) < 2 THEN "short"
      ELSE ""

\* The message validateField chooses for a field with the given value, "" when
\* the field is valid. The messages stand for the Bulgarian texts of the source:
\* "required" for 'Това поле е задължително', "email" for 'Моля въведете валиден
\* имейл адрес', "phone" for 'Моля въведете валиден телефонен номер', "short"
\* for 'Името трябва да съдържа поне 2 символа'.
ErrorMessage(field, raw) ==
  LET v == Trim(raw)
  IN  IF field.required /\ v = <<>> THEN "required"
      ELSE IF field.type = "email" /\ v # <<>> /\ ~isValidEmail(v) THEN "email"
      ELSE IF field.type = "tel" /\ v # <<>> /\ ~isValidPhone(v) THEN "phone"
      ELSE IF field.name = "name" /\ v # <<>> /\ Len(v) < 2 THEN "short"
      ELSE ""

\* The boolean validateField returns.
FieldIsValid(field, raw) == ErrorMessage(field, raw) = ""

\* ------------------------------------------------------- scroll listeners

\* HeaderScrollEffect's scrollThreshold, in pixels.
ScrollThreshold == 50

\* trackScrollDepth's milestones, in percent.
Milestones == {25, 50, 75, 90}

\* document.body.scrollHeight - window.innerHeight of the page, in pixels. The
\* page is taken with a scrollable range that is a power of two: scrollY / 256
\* and its product with 100 are then exact in double precision for every whole
\* scrollY, so that Math.round sees the exact quotient. (With other ranges the
\* double can fall just below a half that the exact quotient reaches.)
ScrollRange == 256

\* The scroll offsets the page is seen at: the top, both sides of the header
\* threshold, the first offsets at 25, 50, 75 and 90 percent, and the bottom.
Offsets == {0, 50, 51, 64, 128, 192, 230, 256}

\* Math.round((scrollY / (scrollHeight - innerHeight)) * 100) for a whole scrollY
\* in 0..ScrollRange; Math.round rounds a half up.
ScrollPercent(y) == (200 * y + ScrollRange) \div (2 * ScrollRange)

\* Mutant of NextMaxScroll: the depth is stored without the comparison.
NextMaxScrollLatest(p) == p

\* maxScroll after trackScroll has seen the percentage p.
NextMaxScroll(p) == IF p > maxScroll THEN p ELSE maxScroll

\* The milestones trackScroll reports at percentage p: none unless p is a new
\* maximum, then those reached and not yet flagged.
NewMilestones(p) ==
  IF p > maxScroll THEN {m \in Milestones : p >= m /\ m \notin tracked} ELSE {}

\* scrollTarget while no smooth scroll is in progress.
NoTarget == 0 - 1

\* The offsets at which the frames of a smooth scroll show the page: the browser
\* chooses them; the model lets a frame stop at any of these offsets on the way
\* (every 64 pixels), and at the target.
FrameOffsets == {0, 64, 128, 192, 256}

\* A scroll event is dispatched with the page at offset y and reaches both
\* throttled listeners. handleScroll, outside its 16 ms cool-down, toggles the
\* header class on y > 50; trackScroll, outside its 250 ms cool-down, updates
\* maxScroll and reports milestones. A listener inside its cool-down drops the
\* event.
scrollListeners(y) ==
  /\ IF headerThrottle
     THEN UNCHANGED <<headerScrolled, headerThrottle>>
     ELSE /\ headerScrolled' = (y > ScrollThreshold)
          /\ headerThrottle' = TRUE
  /\ IF depthThrottle
     THEN UNCHANGED <<maxScroll, tracked, reported, depthThrottle>>
     ELSE /\ maxScroll' = NextMaxScroll(ScrollPercent(y))
          /\ tracked' = tracked \cup NewMilestones(ScrollPercent(y))
          /\ reported' = [m \in Milestones |->
                            reported[m] + (IF m \in NewMilestones(ScrollPercent(y))
                                           THEN 1 ELSE 0)]
          /\ depthThrottle' = TRUE

\* The user scrolls the page to offset y (wheel, touch, keyboard, scroll bar):
\* the page moves and the scroll event of that frame is dispatched. A smooth
\* scroll in progress is given up.
ScrollTo(y) ==
  /\ y # pageYOffset
  /\ pageYOffset' = y
  /\ scrollTarget' = NoTarget
  /\ scrollDue' = FALSE
  /\ scrollListeners(y)
  /\ UNCHANGED outsideScroll

\* window.scrollTo({top: y, behavior: 'smooth'}) and
\* scrollIntoView({behavior: 'smooth'}) with the element in place at offset y:
\* the call returns before any scroll event is dispatched. Where the smooth
\* behaviour is honoured the page stays and the frames that follow move it;
\* elsewhere (no support, reduced motion) the call moves the page at once and the
\* scroll event follows with the next frame. Either replaces a smooth scroll in
\* progress. No listener runs inside the call.
requestScroll(y) ==
  /\ \/ /\ scrollTarget' = IF y = pageYOffset THEN NoTarget ELSE y
        /\ UNCHANGED <<pageYOffset, scrollDue>>
     \/ /\ pageYOffset' = y
        /\ scrollTarget' = NoTarget
        /\ scrollDue' = (scrollDue \/ y # pageYOffset)
  /\ UNCHANGED <<headerScrolled, headerThrottle, maxScroll, tracked, reported,
                 depthThrottle>>

\* A frame of the smooth scroll in progress: the page moves on towards the
\* target, to offset y, and the scroll event of the frame is dispatched. The
\* frame that reaches the target ends the smooth scroll.
ScrollFrame(y) ==
  /\ scrollTarget # NoTarget
  /\ \/ pageYOffset < y /\ y <= scrollTarget
     \/ scrollTarget <= y /\ y < pageYOffset
  /\ pageYOffset' = y
  /\ scrollTarget' = IF y = scrollTarget THEN NoTarget ELSE scrollTarget
  /\ scrollDue' = FALSE
  /\ scrollListeners(y)
  /\ UNCHANGED outsideScroll

\* The scroll event of a move that a call made at once is dispatched, with the
\* page where it is by then.
ScrollEvent ==
  /\ scrollDue
  /\ scrollDue' = FALSE
  /\ scrollListeners(pageYOffset)
  /\ UNCHANGED <<pageYOffset, scrollTarget, outsideScroll>>

\* Where the layout, which is outside the repository, puts the targets that the
\* handlers scroll to: the offset that centres the contact form's fields
\* (scrollIntoView of focusFirstError), the offsets of the sections the menu
\* links name and of the skip link's target (window.scrollTo of SmoothScroll).
FormOffset == 64
LinkOffsets == {128}
MainOffset == 64

\* The cool-down timer of handleScroll runs.
HeaderCooldownEnds ==
  /\ headerThrottle
  /\ headerThrottle' = FALSE
  /\ UNCHANGED <<pageYOffset, headerScrolled, maxScroll, tracked, reported,
                 depthThrottle, scrollTarget, scrollDue, outsideScroll>>

\* The cool-down timer of trackScroll runs.
DepthCooldownEnds ==
  /\ depthThrottle
  /\ depthThrottle' = FALSE
  /\ UNCHANGED <<pageYOffset, headerScrolled, headerThrottle, maxScroll, tracked,
                 reported, scrollTarget, scrollDue, outsideScroll>>

\* ------------------------------------------------------- the form's markup

\* The markup is outside the repository: the model runs over these layouts of
\* input, textarea and select elements inside .contact-form, in document order.
\* "required" is the required attribute, "type" is field.type, "name" is
\* field.name, "hasErrorEl" says that an element with id <name>-error exists.
Forms ==
  { << [name |-> "email", type |-> "email", required |-> FALSE, hasErrorEl |-> TRUE],
       [name |-> "name",  type |-> "text",  required |-> TRUE,  hasErrorEl |-> TRUE] >>,
    << [name |-> "name",  type |-> "text",  required |-> TRUE,  hasErrorEl |-> TRUE],
       [name |-> "phone", type |-> "tel",   required |-> TRUE,  hasErrorEl |-> FALSE] >> }

\* What the user may type into a field, one value for every outcome of
\* validateField on a field of its type: nothing, a value the field rejects,
\* a value it accepts and, for a text field, white space alone.
TypedValues(field) ==
  IF field.type = "email"
  THEN { <<>>, <<"A">>, <<"a", "@", "b", ".", "c">> }
  ELSE IF field.type = "tel"
  THEN { <<>>, <<"A">>, <<"0", "8", "8", "8", "1", "2", "3", "4", "5", "6">> }
  ELSE { <<>>, <<" ">>, <<"A">>, <<"a", "@", "b", ".", "c">> }

\* The value form.reset() restores: the value attribute of the markup, empty here.
DefaultValue(field) == <<>>

\* The label of the submit button in the markup, and the label submitForm shows
\* while the submission is pending ('Изпращане...' in the source).
OriginalLabel == "Izprati"
PendingLabel == "Izprashtane..."

Fields == 1..Len(form)

\* ------------------------------------------------------ ContactForm: fields

\* Mutant of Validated: showError sets the class and the message, not aria-invalid.
ValidatedWithoutAria(st, which) ==
  [ cls  |-> [i \in Fields |->
                IF i \in which THEN ~FieldIsValid(form[i], value[i]) ELSE st.cls[i]],
    aria |-> [i \in Fields |-> IF i \in which THEN "false" ELSE st.aria[i]],
    text |-> [i \in Fields |->
                IF i \in which /\ form[i].hasErrorEl
                THEN ErrorMessage(form[i], value[i])
                ELSE st.text[i]] ]

\* The error state validateField leaves on the fields of `which`, validated with
\* their current values, starting from the error state `st`; the other fields
\* keep theirs. clearErrors runs first, showError when the field is invalid.
Validated(st, which) ==
  [ cls  |-> [i \in Fields |->
                IF i \in which THEN ~FieldIsValid(form[i], value[i]) ELSE st.cls[i]],
    aria |-> [i \in Fields |->
                IF i \in which
                THEN (IF FieldIsValid(form[i], value[i]) THEN "false" ELSE "true")
                ELSE st.aria[i]],
    text |-> [i \in Fields |->
                IF i \in which /\ form[i].hasErrorEl
                THEN ErrorMessage(form[i], value[i])
                ELSE st.text[i]] ]

ErrorState == [cls |-> errClass, aria |-> ariaInvalid, text |-> errText]

\* this.form.querySelectorAll('[required]')
RequiredFields == {i \in Fields : form[i].required}

\* validateForm's result: every required field passes validateField.
FormIsValid == \A i \in RequiredFields : FieldIsValid(form[i], value[i])

\* this.form.querySelector('.error'): the first element in document order that
\* carries the class, 0 when there is none.
FirstError(cls) ==
  IF \E i \in Fields : cls[i]
  THEN CHOOSE i \in Fields : cls[i] /\ \A j \in Fields : cls[j] => i <= j
  ELSE 0

\* element.focus() on field `target` while `focus` holds the focus: the browser
\* fires blur on the field that loses the focus, whose listener is validateField.
BlurOnFocusChange(st, target) ==
  IF focus # 0 /\ focus # target THEN Validated(st, {focus}) ELSE st

\* element.focus() on an element outside the form (the menu button, an element
\* of the overlay, the target of the skip link): the field that holds the focus,
\* if one does, loses it and its blur listener validates it.
FocusLeavesFields ==
  /\ LET st == BlurOnFocusChange(ErrorState, 0)
     IN  /\ errClass' = st.cls
         /\ ariaInvalid' = st.aria
         /\ errText' = st.text
  /\ focus' = 0
  /\ UNCHANGED <<form, value, clearTimer, btnDisabled, btnText, pending,
                 successBanners, errorBanners, formEv>>

\* The user moves the focus (a click, Tab) to field i, or away from the fields
\* to the page (i = 0): the blur listener validates the field that loses the
\* focus, and no element outside the form holds it any longer.
UserFocus(i) ==
  /\ i # focus
  /\ LET st == BlurOnFocusChange(ErrorState, i)
     IN  /\ errClass' = st.cls
         /\ ariaInvalid' = st.aria
         /\ errText' = st.text
  /\ focus' = i
  /\ menuFocus' = "body"
  /\ formEv' = "focus"
  /\ UNCHANGED <<form, value, clearTimer, btnDisabled, btnText, pending,
                 successBanners, errorBanners, scrollVars, outsideFormAndFocus>>

\* The user edits the focused field: the input listener, debounce(clearErrors, 300),
\* clears its timer and arms it again.
Input(i, v) ==
  /\ focus = i
  /\ v # value[i]
  /\ value' = [value EXCEPT ![i] = v]
  /\ clearTimer' = [clearTimer EXCEPT ![i] = TRUE]
  /\ formEv' = "input"
  /\ UNCHANGED <<form, errClass, ariaInvalid, errText, focus, btnDisabled, btnText,
                 pending, successBanners, errorBanners, outsideForm>>

\* The debounce timer of field i fires: clearErrors(field).
ClearErrorsTimer(i) ==
  /\ clearTimer[i]
  /\ clearTimer' = [clearTimer EXCEPT ![i] = FALSE]
  /\ errClass' = [errClass EXCEPT ![i] = FALSE]
  /\ ariaInvalid' = [ariaInvalid EXCEPT ![i] = "false"]
  /\ errText' = [errText EXCEPT ![i] = IF form[i].hasErrorEl THEN "" ELSE @]
  /\ formEv' = "clear"
  /\ UNCHANGED <<form, value, focus, btnDisabled, btnText, pending,
                 successBanners, errorBanners, outsideForm>>

\* ------------------------------------------------- ContactForm: submission

InFlight == Len(pending) + successBanners + errorBanners

\* handleSubmit on a submit event: validateForm, then focusFirstError (the first
\* element with the error class gets the focus and scrollIntoView asks for the
\* scroll that centres it) and an early return, or submitForm up to its await (the button disabled and
\* relabelled, originalText kept by the call that now awaits simulateSubmission).
handleSubmit ==
  /\ InFlight < MaxInFlight
  /\ LET checked == Validated(ErrorState, RequiredFields)
         target  == FirstError(checked.cls)
         st      == IF FormIsValid \/ target = 0
                    THEN checked
                    ELSE BlurOnFocusChange(checked, target)
     IN  /\ errClass' = st.cls
         /\ ariaInvalid' = st.aria
         /\ errText' = st.text
         /\ IF FormIsValid
            THEN /\ pending' = Append(pending, btnText)
                 /\ btnDisabled' = TRUE
                 /\ btnText' = PendingLabel
                 /\ focus' = focus
                 /\ menuFocus' = menuFocus
                 /\ formEv' = "submit"
                 /\ UNCHANGED scrollVars
            ELSE /\ focus' = IF target = 0 THEN focus ELSE target
                 /\ menuFocus' = IF target = 0 THEN menuFocus ELSE "body"
                 /\ IF target = 0 THEN UNCHANGED scrollVars ELSE requestScroll(FormOffset)
                 /\ formEv' = "rejected"
                 /\ UNCHANGED <<pending, btnDisabled, btnText>>
  /\ UNCHANGED <<form, value, clearTimer, successBanners, errorBanners>>

\* A submit event on the contact form, which has its submit button.
HandleSubmit ==
  /\ handleSubmit
  /\ UNCHANGED outsideFormAndFocus

\* The 2000 ms timer of simulateSubmission has run for the oldest pending call:
\* timers run in the order they were set, and the callback always calls resolve.
TimerFired == pending # <<>>

\* The finally block of the oldest pending submitForm call.
RestoreButton ==
  /\ btnDisabled' = FALSE
  /\ btnText' = Head(pending)
  /\ pending' = Tail(pending)

\* The values form.reset() leaves.
ResetValues == [i \in Fields |-> DefaultValue(form[i])]

\* The awaited submission of the oldest pending call resolves: showSuccess,
\* form.reset(), then the finally block.
SubmitResolved ==
  /\ TimerFired
  /\ successBanners' = successBanners + 1
  /\ value' = ResetValues
  /\ RestoreButton
  /\ formEv' = "success"
  /\ UNCHANGED <<form, errClass, ariaInvalid, errText, clearTimer, focus,
                 errorBanners, outsideForm>>

\* Mutant of SubmitRejected: form.reset() sits in the finally block.
SubmitRejectedWithReset ==
  /\ TimerFired
  /\ errorBanners' = errorBanners + 1
  /\ value' = ResetValues
  /\ RestoreButton
  /\ formEv' = "failure"
  /\ UNCHANGED <<form, errClass, ariaInvalid, errText, clearTimer, focus,
                 successBanners, outsideForm>>

\* The awaited submission of the oldest pending call rejects: the catch block
\* (showSubmissionError), then the finally block.
SubmitRejected ==
  /\ TimerFired
  /\ errorBanners' = errorBanners + 1
  /\ RestoreButton
  /\ formEv' = "failure"
  /\ UNCHANGED <<form, value, errClass, ariaInvalid, errText, clearTimer, focus,
                 successBanners, outsideForm>>

\* The 5 s timer of showSuccess removes its banner.
SuccessBannerTimeout ==
  /\ successBanners > 0
  /\ successBanners' = successBanners - 1
  /\ formEv' = "dismiss"
  /\ UNCHANGED <<form, value, errClass, ariaInvalid, errText, clearTimer, focus,
                 btnDisabled, btnText, pending, errorBanners, outsideForm>>

\* The 8 s timer of showSubmissionError removes its banner.
ErrorBannerTimeout ==
  /\ errorBanners > 0
  /\ errorBanners' = errorBanners - 1
  /\ formEv' = "dismiss"
  /\ UNCHANGED <<form, value, errClass, ariaInvalid, errText, clearTimer, focus,
                 btnDisabled, btnText, pending, successBanners, outsideForm>>

\* ------------------------------------------------------ rational numbers

\* A percentage is a JavaScript number; the model keeps it exact, as a fraction
\* <<numerator, denominator>> in lowest terms with a positive denominator.
RECURSIVE Gcd(_, _)
Gcd(a, b) == IF b = 0 THEN a ELSE Gcd(b, a % b)

Abs(a) == IF a < 0 THEN 0 - a ELSE a

Frac(n, d) == LET g == Gcd(Abs(n), d) IN <<n \div g, d \div g>>

Whole(k) == <<k, 1>>

FracLess(p, q) == p[1] * q[2] < q[1] * p[2]

FracPlus(p, k) == Frac(p[1] + k * p[2], p[2])

FracMin(p, q) == IF FracLess(q, p) THEN q ELSE p

FracMax(p, q) == IF FracLess(p, q) THEN q ELSE p

\* -------------------------------------------- PortfolioGallery: the sliders

\* The .image-container elements of the page, side by side from x = 0, all of
\* one width in pixels, which the layout picks among Widths.
Sliders == {1, 2}

Widths == {2, 4}

\* style.left and the clip-path before updateSlider has written them.
Unset == <<>>

\* The step of one arrow key.
KeyStep == 5

\* What parseFloat(sliderHandle.style.left) || 50 falls back to.
DefaultLeft == 50

\* container.getBoundingClientRect().left
RectLeft(s) == (s - 1) * rectWidth

\* clientX of the pointer events: inside the containers and beyond both ends.
ClientXs == (0 - Overshoot)..(Cardinality(Sliders) * rectWidth + Overshoot)

\* clientX of an event whose target lies inside container s.
InsideXs(s) == RectLeft(s)..(RectLeft(s) + rectWidth)

\* Mutant of Clamp: the lower bound is forgotten.
ClampUpperOnly(p) == FracMin(Whole(100), p)

\* Math.max(0, Math.min(100, percentage))
Clamp(p) == FracMax(Whole(0), FracMin(Whole(100), p))

\* updateSlider(percentage): the percentage written to the clip-path of the
\* after image and to the left offset of the handle.
updateSlider(p) == Clamp(p)

\* Mutant of getPercentageFromEvent: rect.left is not subtracted.
PercentageOfClientX(s, x) == Frac(x * 100, rectWidth)

\* getPercentageFromEvent(e) of container s for an event at clientX x.
getPercentageFromEvent(s, x) == Frac((x - RectLeft(s)) * 100, rectWidth)

\* parseFloat(sliderHandle.style.left) || 50: NaN (nothing written yet) and 0
\* are both falsy.
CurrentLeft(s) ==
  IF left[s] = Unset \/ left[s] = Whole(0) THEN Whole(DefaultLeft) ELSE left[s]

\* An event on the page: its type, the container it is dispatched in (0 for an
\* event outside every container), whether its target is the handle, its key.
Event(type, s, part, key) == [type |-> type, slider |-> s, part |-> part, key |-> key]

Parts == {"container", "handle"}

\* Mutant of ReachesContainer: the handle stops every event, not only clicks.
HandleStopsAll(ev) == ev.slider # 0 /\ ev.part # "handle"

\* The listeners an event reaches on its way from its target up to document.
\* Only the click listener of the handle stops the propagation.
ReachesContainer(ev) ==
  ev.slider # 0 /\ ~(ev.type = "click" /\ ev.part = "handle")

\* container 'mousedown' (the cursor style it also sets is not tracked)
MouseDown(s, part, x) ==
  /\ x \in InsideXs(s)
  /\ sliderEv' = Event("mousedown", s, part, "")
  /\ IF ReachesContainer(sliderEv')
     THEN /\ isDragging' = [isDragging EXCEPT ![s] = TRUE]
          /\ left' = [left EXCEPT ![s] = updateSlider(getPercentageFromEvent(s, x))]
          /\ clip' = [clip EXCEPT ![s] = updateSlider(getPercentageFromEvent(s, x))]
     ELSE UNCHANGED <<isDragging, left, clip>>
  /\ UNCHANGED <<rectWidth, ariaValueNow, outsideSlider>>

\* container 'touchstart', read from e.touches[0].clientX
TouchStart(s, part, x) ==
  /\ x \in InsideXs(s)
  /\ sliderEv' = Event("touchstart", s, part, "")
  /\ IF ReachesContainer(sliderEv')
     THEN /\ isDragging' = [isDragging EXCEPT ![s] = TRUE]
          /\ left' = [left EXCEPT ![s] = updateSlider(getPercentageFromEvent(s, x))]
          /\ clip' = [clip EXCEPT ![s] = updateSlider(getPercentageFromEvent(s, x))]
     ELSE UNCHANGED <<isDragging, left, clip>>
  /\ UNCHANGED <<rectWidth, ariaValueNow, outsideSlider>>

\* Mutant of MoveApplies: the early return of the move listeners is missing.
MoveAlways(s) == TRUE

\* Mutant of MoveApplies: one isDragging flag shared by all containers.
MoveAnyDragging(s) == \E t \in Sliders : isDragging[t]

\* Whether the document 'mousemove' / 'touchmove' listener of slider s goes past
\* its early return.
MoveApplies(s) == isDragging[s]

\* The position the move listeners of all sliders leave for an event at x.
Moved(pos, x) ==
  [s \in Sliders |->
     IF MoveApplies(s) THEN updateSlider(getPercentageFromEvent(s, x)) ELSE pos[s]]

\* document 'mousemove': one listener per slider
MouseMove(x) ==
  /\ sliderEv' = Event("mousemove", 0, "none", "")
  /\ left' = Moved(left, x)
  /\ clip' = Moved(clip, x)
  /\ UNCHANGED <<rectWidth, isDragging, ariaValueNow, outsideSlider>>

\* document 'touchmove': one listener per slider
TouchMove(x) ==
  /\ sliderEv' = Event("touchmove", 0, "none", "")
  /\ left' = Moved(left, x)
  /\ clip' = Moved(clip, x)
  /\ UNCHANGED <<rectWidth, isDragging, ariaValueNow, outsideSlider>>

\* document 'mouseup': one listener per slider
MouseUp ==
  /\ sliderEv' = Event("mouseup", 0, "none", "")
  /\ isDragging' = [s \in Sliders |-> FALSE]
  /\ UNCHANGED <<rectWidth, left, clip, ariaValueNow, outsideSlider>>

\* document 'touchend': one listener per slider
TouchEnd ==
  /\ sliderEv' = Event("touchend", 0, "none", "")
  /\ isDragging' = [s \in Sliders |-> FALSE]
  /\ UNCHANGED <<rectWidth, left, clip, ariaValueNow, outsideSlider>>

\* A click, on the handle (its listener stops the propagation) or elsewhere in
\* the container; no listener of the gallery on the container or on document
\* handles a click.
Click(s, part) ==
  /\ sliderEv' = Event("click", s, part, "")
  /\ UNCHANGED <<rectWidth, isDragging, left, clip, ariaValueNow, outsideSlider>>

Keys == {"ArrowLeft", "ArrowRight", "Enter"}

\* The percentage the keydown listener hands to updateSlider.
KeyTarget(s, key) ==
  IF key = "ArrowLeft" THEN FracPlus(CurrentLeft(s), 0 - KeyStep)
  ELSE FracPlus(CurrentLeft(s), KeyStep)

\* container 'keydown', the container having the focus
KeyDown(s, key) ==
  /\ sliderEv' = Event("keydown", s, "container", key)
  /\ IF ReachesContainer(sliderEv') /\ key \in {"ArrowLeft", "ArrowRight"}
     THEN /\ left' = [left EXCEPT ![s] = updateSlider(KeyTarget(s, key))]
          /\ clip' = [clip EXCEPT ![s] = updateSlider(KeyTarget(s, key))]
     ELSE UNCHANGED <<left, clip>>
  /\ UNCHANGED <<rectWidth, isDragging, ariaValueNow, outsideSlider>>

\* ---------------------------------------------------------- specifications

\* The page right after initializeApp, with a .header and the contact form in
\* one of the layouts, at the top: HeaderScrollEffect.init has made its initial
\* check through the throttled handleScroll, whose cool-down is running. The
\* other widgets are idle.
Init ==
  /\ form \in Forms
  /\ value = [i \in 1..Len(form) |-> DefaultValue(form[i])]
  /\ errClass = [i \in 1..Len(form) |-> FALSE]
  /\ ariaInvalid = [i \in 1..Len(form) |-> ""]
  /\ errText = [i \in 1..Len(form) |-> ""]
  /\ clearTimer = [i \in 1..Len(form) |-> FALSE]
  /\ focus = 0
  /\ btnDisabled = FALSE
  /\ btnText = OriginalLabel
  /\ pending = <<>>
  /\ successBanners = 0
  /\ errorBanners = 0
  /\ formEv = "init"
  /\ rectWidth = 0
  /\ isDragging = <<>>
  /\ left = <<>>
  /\ clip = <<>>
  /\ ariaValueNow = <<>>
  /\ sliderEv = <<>>
  /\ vField = <<>>
  /\ vRaw = <<>>
  /\ vResult = "unchecked"
  /\ ioAvailable = TRUE
  /\ intersecting = <<>>
  /\ lastReported = <<>>
  /\ observed = {}
  /\ queued = {}
  /\ revealed = <<>>
  /\ reveals = <<>>
  /\ revealEv = "init"
  /\ dom = <<>>
  /\ started = 0
  /\ initialized = {}
  /\ logged = {}
  /\ raised = {}
  /\ appEv = "init"
  /\ menuActive = FALSE
  /\ ariaHidden = "true"
  /\ ariaExpanded = "false"
  /\ bodyOverflow = ""
  /\ menuFocus = "body"
  /\ focusTimers = 0
  /\ resizeTimer = FALSE
  /\ innerWide = FALSE
  /\ menuEv = "init"
  /\ dWait = 0
  /\ dArmed = FALSE
  /\ dSince = 0
  /\ dArgs = "none"
  /\ dInvoked = 0
  /\ dGot = "none"
  /\ tLimit = 0
  /\ tIn = FALSE
  /\ tSince = 0
  /\ tCalled = FALSE
  /\ tGot = "none"
  /\ rateEv = <<>>
  /\ pageYOffset = 0
  /\ headerScrolled = FALSE
  /\ headerThrottle = TRUE
  /\ maxScroll = 0
  /\ tracked = {}
  /\ reported = [m \in Milestones |-> 0]
  /\ depthThrottle = FALSE
  /\ scrollTarget = NoTarget
  /\ scrollDue = FALSE

Next ==
  \/ \E i \in {0} \cup Fields : UserFocus(i)
  \/ \E i \in Fields : \E v \in TypedValues(form[i]) : Input(i, v)
  \/ \E i \in Fields : ClearErrorsTimer(i)
  \/ HandleSubmit
  \/ SubmitResolved
  \/ SubmitRejected
  \/ SuccessBannerTimeout
  \/ ErrorBannerTimeout
  \/ \E y \in FrameOffsets : ScrollFrame(y)
  \/ ScrollEvent
  \/ HeaderCooldownEnds
  \/ DepthCooldownEnds

Spec == Init /\ [][Next]_vars

\* The contact form with the scheduling the browser guarantees: a timer that was
\* set runs, so the promise a submitForm call awaits settles and the call resumes.
FairSpec == Init /\ [][Next]_vars /\ WF_vars(SubmitResolved \/ SubmitRejected)

\* initBeforeAfterSliders: the flag of every closure and the ARIA attributes; the
\* other widgets are idle.
SliderInit ==
  /\ rectWidth \in Widths
  /\ isDragging = [s \in Sliders |-> FALSE]
  /\ left = [s \in Sliders |-> Unset]
  /\ clip = [s \in Sliders |-> Unset]
  /\ ariaValueNow = [s \in Sliders |-> Whole(50)]
  /\ sliderEv = Event("init", 0, "none", "")
  /\ form = <<>>
  /\ value = <<>>
  /\ errClass = <<>>
  /\ ariaInvalid = <<>>
  /\ errText = <<>>
  /\ clearTimer = <<>>
  /\ focus = 0
  /\ btnDisabled = FALSE
  /\ btnText = OriginalLabel
  /\ pending = <<>>
  /\ successBanners = 0
  /\ errorBanners = 0
  /\ formEv = "init"
  /\ vField = <<>>
  /\ vRaw = <<>>
  /\ vResult = "unchecked"
  /\ ioAvailable = TRUE
  /\ intersecting = <<>>
  /\ lastReported = <<>>
  /\ observed = {}
  /\ queued = {}
  /\ revealed = <<>>
  /\ reveals = <<>>
  /\ revealEv = "init"
  /\ dom = <<>>
  /\ started = 0
  /\ initialized = {}
  /\ logged = {}
  /\ raised = {}
  /\ appEv = "init"
  /\ menuActive = FALSE
  /\ ariaHidden = "true"
  /\ ariaExpanded = "false"
  /\ bodyOverflow = ""
  /\ menuFocus = "body"
  /\ focusTimers = 0
  /\ resizeTimer = FALSE
  /\ innerWide = FALSE
  /\ menuEv = "init"
  /\ dWait = 0
  /\ dArmed = FALSE
  /\ dSince = 0
  /\ dArgs = "none"
  /\ dInvoked = 0
  /\ dGot = "none"
  /\ tLimit = 0
  /\ tIn = FALSE
  /\ tSince = 0
  /\ tCalled = FALSE
  /\ tGot = "none"
  /\ rateEv = <<>>
  /\ pageYOffset = 0
  /\ headerScrolled = FALSE
  /\ headerThrottle = FALSE
  /\ maxScroll = 0
  /\ tracked = {}
  /\ reported = <<>>
  /\ depthThrottle = FALSE
  /\ scrollTarget = NoTarget
  /\ scrollDue = FALSE

SliderNext ==
  \/ \E s \in Sliders, part \in Parts, x \in ClientXs : MouseDown(s, part, x)
  \/ \E s \in Sliders, part \in Parts, x \in ClientXs : TouchStart(s, part, x)
  \/ \E x \in ClientXs : MouseMove(x)
  \/ \E x \in ClientXs : TouchMove(x)
  \/ MouseUp
  \/ TouchEnd
  \/ \E s \in Sliders, part \in Parts : Click(s, part)
  \/ \E s \in Sliders, key \in Keys : KeyDown(s, key)

SliderSpec == SliderInit /\ [][SliderNext]_vars

\* ------------------------------------------------- validateField on its own

\* The fields validateField may be handed: field.name, field.type and the
\* required attribute, in every combination.
FieldKinds ==
  [name : {"name", "email", "phone"}, type : {"text", "email", "tel"},
   required : BOOLEAN]

\* The characters typed into a field one at a time; " " stands for every
\* character of the class \s.
TypedChars == {"a", "@", ".", " "}

\* Every string over TypedChars of at most MaxTyped characters.
TypedStrings == UNION {[1..n -> TypedChars] : n \in 0..MaxTyped}

Eights(n) == [i \in 1..n |-> "8"]

\* Phone numbers as users write them: an opening parenthesis or not, a prefix,
\* a separator or not, 7 to 10 digits, and a stray letter or not.
PhoneStrings ==
  { pre \o head \o sep \o Eights(n) \o post :
      pre \in {<<>>, <<"(">>},
      head \in PhonePrefixes \cup {<<"+">>, <<"1">>},
      sep \in {<<>>, <<" ">>, <<"-">>},
      n \in 7..10,
      post \in {<<>>, <<"a">>} }

\* The values the specification of section 8 lists.
ExampleABC == <<"a", "@", "b", ".", "c">>
ExampleNotAnEmail == <<"n", "o", "t", "-", "a", "n", "-", "e", "m", "a", "i", "l">>
ExampleMobile == <<"0", "8", "8", "8", "1", "2", "3", "4", "5", "6">>
Example123 == <<"1", "2", "3">>
ExampleA == <<"A">>
ExampleAl == <<"A", "l">>

\* "a@b.c" as pasted with a leading white-space character.
PaddedABC == <<" ">> \o ExampleABC

FieldValues ==
  TypedStrings \cup PhoneStrings
    \cup {ExampleABC, ExampleNotAnEmail, ExampleMobile, Example123, ExampleA, ExampleAl,
          PaddedABC}

\* validateField(field): the message it shows, "" when it returns true.
ValidateField ==
  /\ vResult = "unchecked"
  /\ vResult' = ErrorMessage(vField, vRaw)
  /\ UNCHANGED <<vField, vRaw, outsideValidator>>

\* The user types one more character into the field after a validation; the
\* next validation reads field.value afresh.
TypeChar(c) ==
  /\ vResult # "unchecked"
  /\ Len(vRaw) < MaxTyped
  /\ vRaw' = Append(vRaw, c)
  /\ vResult' = "unchecked"
  /\ UNCHANGED <<vField, outsideValidator>>

\* A field of any kind holding any value, not validated yet; the other widgets
\* are idle.
ValidatorInit ==
  /\ vField \in FieldKinds
  /\ vRaw \in FieldValues
  /\ vResult = "unchecked"
  /\ form = <<>>
  /\ value = <<>>
  /\ errClass = <<>>
  /\ ariaInvalid = <<>>
  /\ errText = <<>>
  /\ clearTimer = <<>>
  /\ focus = 0
  /\ btnDisabled = FALSE
  /\ btnText = OriginalLabel
  /\ pending = <<>>
  /\ successBanners = 0
  /\ errorBanners = 0
  /\ formEv = "init"
  /\ rectWidth = 0
  /\ isDragging = <<>>
  /\ left = <<>>
  /\ clip = <<>>
  /\ ariaValueNow = <<>>
  /\ sliderEv = <<>>
  /\ ioAvailable = TRUE
  /\ intersecting = <<>>
  /\ lastReported = <<>>
  /\ observed = {}
  /\ queued = {}
  /\ revealed = <<>>
  /\ reveals = <<>>
  /\ revealEv = "init"
  /\ dom = <<>>
  /\ started = 0
  /\ initialized = {}
  /\ logged = {}
  /\ raised = {}
  /\ appEv = "init"
  /\ menuActive = FALSE
  /\ ariaHidden = "true"
  /\ ariaExpanded = "false"
  /\ bodyOverflow = ""
  /\ menuFocus = "body"
  /\ focusTimers = 0
  /\ resizeTimer = FALSE
  /\ innerWide = FALSE
  /\ menuEv = "init"
  /\ dWait = 0
  /\ dArmed = FALSE
  /\ dSince = 0
  /\ dArgs = "none"
  /\ dInvoked = 0
  /\ dGot = "none"
  /\ tLimit = 0
  /\ tIn = FALSE
  /\ tSince = 0
  /\ tCalled = FALSE
  /\ tGot = "none"
  /\ rateEv = <<>>
  /\ pageYOffset = 0
  /\ headerScrolled = FALSE
  /\ headerThrottle = FALSE
  /\ maxScroll = 0
  /\ tracked = {}
  /\ reported = <<>>
  /\ depthThrottle = FALSE
  /\ scrollTarget = NoTarget
  /\ scrollDue = FALSE

ValidatorNext ==
  \/ ValidateField
  \/ \E c \in TypedChars : TypeChar(c)

ValidatorSpec == ValidatorInit /\ [][ValidatorNext]_vars

\* ------------------------------------------------------- ScrollAnimations

\* document.querySelectorAll('.service-card, .feature, .testimonial,
\* .section-header'): the reveal targets of the page.
Targets == {1, 2, 3}

\* What the observer would report for target t now.
Status(t) == IF intersecting[t] THEN "in" ELSE "out"

\* The user scrolls or the layout changes: target t crosses the observer's
\* threshold (10% visible, bottom margin -50px), in either direction.
Scroll(t) ==
  /\ intersecting' = [intersecting EXCEPT ![t] = ~@]
  /\ revealEv' = "scroll"
  /\ UNCHANGED <<ioAvailable, lastReported, observed, queued, revealed, reveals,
                 outsideReveal>>

\* The browser updates the intersection observations of a frame: an entry is
\* queued for every observed target whose state differs from the one reported
\* last (the first observation of a target always queues one).
NeedsEntry == {t \in observed : lastReported[t] # Status(t)}

ComputeIntersections ==
  /\ NeedsEntry # {}
  /\ queued' = queued \cup {<<t, Status(t)>> : t \in NeedsEntry}
  /\ lastReported' = [t \in Targets |->
                        IF t \in NeedsEntry THEN Status(t) ELSE lastReported[t]]
  /\ revealEv' = "frame"
  /\ UNCHANGED <<ioAvailable, intersecting, observed, revealed, reveals, outsideReveal>>

\* The targets with an isIntersecting entry in the batch handed to the callback.
Entering == {t \in Targets : <<t, "in">> \in queued}

\* Mutant of Deliver: the callback adds the class and keeps observing the target.
DeliverKeepsObserving ==
  /\ queued # {}
  /\ revealed' = [t \in Targets |-> revealed[t] \/ t \in Entering]
  /\ reveals' = [t \in Targets |-> reveals[t] + (IF t \in Entering THEN 1 ELSE 0)]
  /\ observed' = observed
  /\ queued' = {}
  /\ revealEv' = "callback"
  /\ UNCHANGED <<ioAvailable, intersecting, lastReported, outsideReveal>>

\* The observer's callback runs over the queued entries: every entry with
\* isIntersecting adds 'animate-fade-in-up' to its target and unobserves it.
Deliver ==
  /\ queued # {}
  /\ revealed' = [t \in Targets |-> revealed[t] \/ t \in Entering]
  /\ reveals' = [t \in Targets |-> reveals[t] + (IF t \in Entering THEN 1 ELSE 0)]
  /\ observed' = observed \ Entering
  /\ queued' = {}
  /\ revealEv' = "callback"
  /\ UNCHANGED <<ioAvailable, intersecting, lastReported, outsideReveal>>

\* Mutant of fallbackAnimations: the fallback returns without adding the class.
fallbackLeavesHidden == [t \in Targets |-> FALSE]

\* fallbackAnimations: the class on every target.
fallbackAnimations == [t \in Targets |-> TRUE]

\* ScrollAnimations' constructor: with IntersectionObserver every target is
\* observed and none is revealed; without it fallbackAnimations adds the class
\* to every target at once and nothing is observed. The other widgets are idle.
RevealInit ==
  /\ ioAvailable \in BOOLEAN
  /\ intersecting \in [Targets -> BOOLEAN]
  /\ lastReported = [t \in Targets |-> "none"]
  /\ observed = IF ioAvailable THEN Targets ELSE {}
  /\ queued = {}
  /\ revealed = IF ioAvailable THEN [t \in Targets |-> FALSE] ELSE fallbackAnimations
  /\ reveals = [t \in Targets |-> IF ioAvailable THEN 0 ELSE 1]
  /\ revealEv = "init"
  /\ form = <<>>
  /\ value = <<>>
  /\ errClass = <<>>
  /\ ariaInvalid = <<>>
  /\ errText = <<>>
  /\ clearTimer = <<>>
  /\ focus = 0
  /\ btnDisabled = FALSE
  /\ btnText = OriginalLabel
  /\ pending = <<>>
  /\ successBanners = 0
  /\ errorBanners = 0
  /\ formEv = "init"
  /\ rectWidth = 0
  /\ isDragging = <<>>
  /\ left = <<>>
  /\ clip = <<>>
  /\ ariaValueNow = <<>>
  /\ sliderEv = <<>>
  /\ vField = <<>>
  /\ vRaw = <<>>
  /\ vResult = "unchecked"
  /\ dom = <<>>
  /\ started = 0
  /\ initialized = {}
  /\ logged = {}
  /\ raised = {}
  /\ appEv = "init"
  /\ menuActive = FALSE
  /\ ariaHidden = "true"
  /\ ariaExpanded = "false"
  /\ bodyOverflow = ""
  /\ menuFocus = "body"
  /\ focusTimers = 0
  /\ resizeTimer = FALSE
  /\ innerWide = FALSE
  /\ menuEv = "init"
  /\ dWait = 0
  /\ dArmed = FALSE
  /\ dSince = 0
  /\ dArgs = "none"
  /\ dInvoked = 0
  /\ dGot = "none"
  /\ tLimit = 0
  /\ tIn = FALSE
  /\ tSince = 0
  /\ tCalled = FALSE
  /\ tGot = "none"
  /\ rateEv = <<>>
  /\ pageYOffset = 0
  /\ headerScrolled = FALSE
  /\ headerThrottle = FALSE
  /\ maxScroll = 0
  /\ tracked = {}
  /\ reported = <<>>
  /\ depthThrottle = FALSE
  /\ scrollTarget = NoTarget
  /\ scrollDue = FALSE

RevealNext ==
  \/ \E t \in Targets : Scroll(t)
  \/ ComputeIntersections
  \/ Deliver

RevealSpec == RevealInit /\ [][RevealNext]_vars

\* -------------------------------------------------------------- MobileMenu

\* The listener that ran last and the menu method it called ("none" when its
\* condition was false).
MenuEvent(event, call) == [event |-> event, call |-> call]

\* openMenu: the class, the two ARIA attributes, the scroll lock, and the 100 ms
\* timer that will focus the first .mobile-nav-link (the overlay has links).
openMenu(event) ==
  /\ focusTimers < MaxFocusTimers
  /\ menuActive' = TRUE
  /\ ariaHidden' = "false"
  /\ ariaExpanded' = "true"
  /\ bodyOverflow' = "hidden"
  /\ focusTimers' = focusTimers + 1
  /\ menuFocus' = menuFocus
  /\ menuEv' = MenuEvent(event, "openMenu")
  /\ UNCHANGED formVars

\* Mutant of closeMenu: body.style.overflow is not reset.
closeMenuKeepsScrollLock(event) ==
  /\ menuActive' = FALSE
  /\ ariaHidden' = "true"
  /\ ariaExpanded' = "false"
  /\ bodyOverflow' = bodyOverflow
  /\ focusTimers' = focusTimers
  /\ menuFocus' = "trigger"
  /\ menuEv' = MenuEvent(event, "closeMenu")
  /\ FocusLeavesFields

\* closeMenu: the class, the two ARIA attributes, the scroll lock, and the focus
\* back on the menu button, which a form field that held it loses. The timers
\* of openMenu are left pending.
closeMenu(event) ==
  /\ menuActive' = FALSE
  /\ ariaHidden' = "true"
  /\ ariaExpanded' = "false"
  /\ bodyOverflow' = ""
  /\ focusTimers' = focusTimers
  /\ menuFocus' = "trigger"
  /\ menuEv' = MenuEvent(event, "closeMenu")
  /\ FocusLeavesFields

\* A listener whose condition is false.
IgnoredByMenu(event) ==
  /\ menuEv' = MenuEvent(event, "none")
  /\ UNCHANGED <<menuActive, ariaHidden, ariaExpanded, bodyOverflow, focusTimers,
                 menuFocus, formVars>>

\* click on .mobile-menu-btn: toggleMenu.
ToggleClick ==
  /\ IF menuActive THEN closeMenu("toggle") ELSE openMenu("toggle")
  /\ UNCHANGED <<resizeTimer, innerWide, outsideMenuAndForm>>

\* click on .mobile-menu-close, reachable while the overlay is shown.
CloseClick ==
  /\ menuActive
  /\ closeMenu("closeBtn")
  /\ UNCHANGED <<resizeTimer, innerWide, outsideMenuAndForm>>

\* click on a .mobile-nav-link, an anchor to a section of the page: on the
\* shown overlay, or by the keyboard on a link that holds the focus. The link's
\* listener closes the menu; the click bubbles to document, where the listener
\* of SmoothScroll asks for the scroll to the section.
LinkClick ==
  /\ menuActive \/ menuFocus \in {"link", "lastLink"}
  /\ closeMenu("link")
  /\ \E y \in LinkOffsets : requestScroll(y)
  /\ UNCHANGED <<resizeTimer, innerWide, outsideMenuFormAndScroll>>

\* click on the overlay itself (e.target === this.menu), outside its panel.
BackdropClick ==
  /\ menuActive
  /\ closeMenu("backdrop")
  /\ UNCHANGED <<resizeTimer, innerWide, outsideMenuAndForm>>

\* Mutant of EscapeKey: the listener does not test the class before closing.
EscapeKeyAlwaysCloses ==
  /\ closeMenu("escape")
  /\ UNCHANGED <<resizeTimer, innerWide, outsideMenuAndForm>>

\* keydown with key Escape anywhere in the document.
EscapeKey ==
  /\ IF menuActive THEN closeMenu("escape") ELSE IgnoredByMenu("escape")
  /\ UNCHANGED <<resizeTimer, innerWide, outsideMenuAndForm>>

\* A resize event: the debounced listener arms its 250 ms timer again.
Resize(wide) ==
  /\ innerWide' = wide
  /\ resizeTimer' = TRUE
  /\ IgnoredByMenu("resize")
  /\ UNCHANGED outsideMenuAndForm

\* The debounce timer of the resize listener fires.
ResizeTimer ==
  /\ resizeTimer
  /\ resizeTimer' = FALSE
  /\ IF innerWide /\ menuActive
     THEN closeMenu("resizeTimer")
     ELSE IgnoredByMenu("resizeTimer")
  /\ UNCHANGED <<innerWide, outsideMenuAndForm>>

\* A 100 ms timer of openMenu fires: firstLink.focus(). On the shown overlay the
\* link takes the focus; on a closed overlay it does as well unless the style
\* sheet, which is outside the repository, makes the closed overlay unfocusable.
FocusTimer ==
  /\ focusTimers > 0
  /\ focusTimers' = focusTimers - 1
  /\ \/ menuFocus' = "link" /\ FocusLeavesFields
     \/ ~menuActive /\ menuFocus' = menuFocus /\ UNCHANGED formVars
  /\ menuEv' = MenuEvent("focusTimer", "none")
  /\ UNCHANGED <<menuActive, ariaHidden, ariaExpanded, bodyOverflow, resizeTimer,
                 innerWide, outsideMenuAndForm>>

\* The elements of the overlay that match the selector of handleFocusTrapping,
\* in document order: the close button, then the .mobile-nav-link elements, of
\* which the model names the first and the last.
OverlayElements == <<"closeBtn", "link", "lastLink">>

InOverlay == {OverlayElements[k] : k \in 1..Len(OverlayElements)}

\* The user moves the focus to element e of the shown overlay (Tab or Shift+Tab
\* away from its edges, a tap).
UserFocusMenu(e) ==
  /\ menuActive
  /\ e # menuFocus
  /\ menuFocus' = e
  /\ FocusLeavesFields
  /\ menuEv' = MenuEvent("focus", "none")
  /\ UNCHANGED <<menuActive, ariaHidden, ariaExpanded, bodyOverflow, focusTimers,
                 resizeTimer, innerWide, outsideMenuAndForm>>

\* keydown Tab on an element of the overlay, the listener of handleFocusTrapping:
\* Shift+Tab on the first element focuses the last, Tab on the last element
\* focuses the first, and everywhere else the listener does nothing.
TabKey(shift) ==
  /\ menuFocus \in InOverlay
  /\ menuFocus' =
       IF shift /\ menuFocus = Head(OverlayElements)
       THEN OverlayElements[Len(OverlayElements)]
       ELSE IF ~shift /\ menuFocus = OverlayElements[Len(OverlayElements)]
       THEN Head(OverlayElements)
       ELSE menuFocus
  /\ menuEv' = MenuEvent(IF shift THEN "shiftTab" ELSE "tab", "none")
  /\ UNCHANGED <<menuActive, ariaHidden, ariaExpanded, bodyOverflow, focusTimers,
                 resizeTimer, innerWide, formVars, outsideMenuAndForm>>

\* click on .skip-link, the listener of enhanceKeyboardNavigation: the target
\* of its href gets tabIndex -1 and the focus. The click bubbles to document,
\* where the listener of SmoothScroll asks for the scroll to the target.
SkipLinkClick ==
  /\ menuFocus' = "main"
  /\ FocusLeavesFields
  /\ requestScroll(MainOffset)
  /\ menuEv' = MenuEvent("skipLink", "none")
  /\ UNCHANGED <<menuActive, ariaHidden, ariaExpanded, bodyOverflow, focusTimers,
                 resizeTimer, innerWide, outsideMenuFormAndScroll>>

\* The page right after initializeApp, with a .header, the button, the overlay
\* and its links, the skip link and the contact form with its fields empty: the
\* menu is closed, as the markup has it, the focus is on the page, the page is
\* at the top and the cool-down of the header's initial check is running. The
\* other widgets are idle.
MenuInit ==
  /\ menuActive = FALSE
  /\ ariaHidden = "true"
  /\ ariaExpanded = "false"
  /\ bodyOverflow = ""
  /\ menuFocus = "body"
  /\ focusTimers = 0
  /\ resizeTimer = FALSE
  /\ innerWide \in BOOLEAN
  /\ menuEv = MenuEvent("init", "none")
  /\ form \in Forms
  /\ value = [i \in 1..Len(form) |-> DefaultValue(form[i])]
  /\ errClass = [i \in 1..Len(form) |-> FALSE]
  /\ ariaInvalid = [i \in 1..Len(form) |-> ""]
  /\ errText = [i \in 1..Len(form) |-> ""]
  /\ clearTimer = [i \in 1..Len(form) |-> FALSE]
  /\ focus = 0
  /\ btnDisabled = FALSE
  /\ btnText = OriginalLabel
  /\ pending = <<>>
  /\ successBanners = 0
  /\ errorBanners = 0
  /\ formEv = "init"
  /\ rectWidth = 0
  /\ isDragging = <<>>
  /\ left = <<>>
  /\ clip = <<>>
  /\ ariaValueNow = <<>>
  /\ sliderEv = <<>>
  /\ vField = <<>>
  /\ vRaw = <<>>
  /\ vResult = "unchecked"
  /\ ioAvailable = TRUE
  /\ intersecting = <<>>
  /\ lastReported = <<>>
  /\ observed = {}
  /\ queued = {}
  /\ revealed = <<>>
  /\ reveals = <<>>
  /\ revealEv = "init"
  /\ dom = <<>>
  /\ started = 0
  /\ initialized = {}
  /\ logged = {}
  /\ raised = {}
  /\ appEv = "init"
  /\ dWait = 0
  /\ dArmed = FALSE
  /\ dSince = 0
  /\ dArgs = "none"
  /\ dInvoked = 0
  /\ dGot = "none"
  /\ tLimit = 0
  /\ tIn = FALSE
  /\ tSince = 0
  /\ tCalled = FALSE
  /\ tGot = "none"
  /\ rateEv = <<>>
  /\ pageYOffset = 0
  /\ headerScrolled = FALSE
  /\ headerThrottle = TRUE
  /\ maxScroll = 0
  /\ tracked = {}
  /\ reported = [m \in Milestones |-> 0]
  /\ depthThrottle = FALSE
  /\ scrollTarget = NoTarget
  /\ scrollDue = FALSE

MenuNext ==
  \/ ToggleClick
  \/ CloseClick
  \/ LinkClick
  \/ BackdropClick
  \/ EscapeKey
  \/ \E wide \in BOOLEAN : Resize(wide)
  \/ ResizeTimer
  \/ FocusTimer
  \/ \E e \in InOverlay : UserFocusMenu(e)
  \/ \E shift \in BOOLEAN : TabKey(shift)
  \/ SkipLinkClick
  \/ \E i \in 0..Len(form) : UserFocus(i)
  \/ \E y \in FrameOffsets : ScrollFrame(y)
  \/ ScrollEvent
  \/ HeaderCooldownEnds
  \/ DepthCooldownEnds

MenuSpec == MenuInit /\ [][MenuNext]_vars

\* ---------------------------------------------------------- initializeApp

\* The constructors initializeApp calls, in its order.
Components ==
  << "MobileMenu", "HeaderScrollEffect", "SmoothScroll", "ContactForm",
     "ScrollAnimations", "PortfolioGallery", "PerformanceOptimizer",
     "AccessibilityEnhancements", "Analytics" >>

\* The pages the script may load on: which of .header, .mobile-menu-btn,
\* .mobile-menu, .contact-form, its button[type="submit"], an .image-container,
\* its .after-image and its .slider-handle exist, and whether the browser has
\* IntersectionObserver. An element exists only inside its parent.
Pages ==
  { d \in [header : BOOLEAN, menuBtn : BOOLEAN, menu : BOOLEAN, form : BOOLEAN,
            submitBtn : BOOLEAN, container : BOOLEAN, afterImage : BOOLEAN,
            handle : BOOLEAN, observerApi : BOOLEAN] :
      /\ d.submitBtn => d.form
      /\ d.afterImage => d.container
      /\ d.handle => d.container }

\* The exception the constructor of component c throws on the page, "" when it
\* returns. PortfolioGallery: sliderHandle.addEventListener on null, after the
\* container's and the document's listeners are attached. AccessibilityEnhancements:
\* announcePageChanges calls new IntersectionObserver with no guard.
Throws(c) ==
  IF c = "PortfolioGallery" /\ dom.container /\ ~dom.handle THEN "TypeError"
  ELSE IF c = "AccessibilityEnhancements" /\ ~dom.observerApi THEN "ReferenceError"
  ELSE ""

\* initializeApp has left its try statement.
Settled == started = Len(Components) \/ logged # {}

\* The one .image-container of a page that has one; its slot in the slider
\* variables.
AppContainers == IF dom.container THEN {1} ELSE {}

\* What the page's handlers leave alone besides the form, the sliders, the menu
\* and the startup itself.
outsideAppWidgets == <<validatorVars, revealVars, rateVars>>

\* The next constructor call inside the try block of initializeApp: it returns,
\* or it throws and the catch block logs the error, which ends initializeApp.
\* PortfolioGallery's constructor, when it gets that far, sets aria-valuenow to
\* '50' on the container. HeaderScrollEffect's constructor, on a page with a
\* .header, makes its initial check through the throttled handleScroll, which
\* starts the cool-down.
Construct ==
  /\ ~Settled
  /\ LET c == Components[started + 1]
     IN  /\ IF Throws(c) = ""
            THEN /\ initialized' = initialized \cup {c}
                 /\ logged' = logged
                 /\ appEv' = "constructed"
            ELSE /\ logged' = logged \cup {<<c, Throws(c)>>}
                 /\ initialized' = initialized
                 /\ appEv' = "caught"
         /\ ariaValueNow' = IF c = "PortfolioGallery" /\ Throws(c) = ""
                            THEN [s \in AppContainers |-> Whole(50)]
                            ELSE ariaValueNow
         /\ IF c = "HeaderScrollEffect" /\ dom.header
            THEN /\ headerScrolled' = (pageYOffset > ScrollThreshold)
                 /\ headerThrottle' = TRUE
            ELSE UNCHANGED <<headerScrolled, headerThrottle>>
  /\ started' = started + 1
  /\ UNCHANGED <<dom, raised, formVars, rectWidth, isDragging, left, clip,
                 sliderEv, menuVars, pageYOffset, maxScroll, tracked, reported,
                 depthThrottle, scrollTarget, scrollDue, outsideAppWidgets>>

\* A submit event on the contact form. With a submit button it is handled as
\* on any page. Without one, a form that validateForm passes reaches submitForm,
\* which reads submitButton.textContent before its try block: the async call
\* rejects with a TypeError nobody handles, after validateForm has run.
AppSubmit ==
  /\ Settled
  /\ dom.form /\ "ContactForm" \in initialized
  /\ IF dom.submitBtn \/ ~FormIsValid
     THEN /\ handleSubmit
          /\ raised' = raised
     ELSE /\ LET checked == Validated(ErrorState, RequiredFields)
             IN  /\ errClass' = checked.cls
                 /\ ariaInvalid' = checked.aria
                 /\ errText' = checked.text
          /\ raised' = raised \cup {<<"ContactForm", "TypeError">>}
          /\ formEv' = "submit"
          /\ UNCHANGED <<form, value, clearTimer, focus, btnDisabled, btnText,
                         pending, successBanners, errorBanners, menuFocus,
                         scrollVars>>
  /\ appEv' = "submit"
  /\ UNCHANGED <<dom, started, initialized, logged, sliderVars, menuRest,
                 outsideAppWidgets>>

\* A click on the menu button: MobileMenu.init returned before adding listeners
\* when .mobile-menu is absent; otherwise toggleMenu opens or closes the menu.
AppMenuClick ==
  /\ Settled
  /\ dom.menuBtn /\ "MobileMenu" \in initialized
  /\ IF dom.menu
     THEN /\ IF menuActive THEN closeMenu("toggle") ELSE openMenu("toggle")
          /\ UNCHANGED <<resizeTimer, innerWide>>
     ELSE UNCHANGED <<menuVars, formVars>>
  /\ appEv' = "menuclick"
  /\ UNCHANGED <<dom, started, initialized, logged, raised, sliderVars, scrollVars,
                 outsideAppWidgets>>

\* updateSlider(p) on the page's container: the clip-path of the after image is
\* written first, then the left offset of the handle; an absent element ends
\* the listener with a TypeError nobody handles.
AppUpdateSlider(p) ==
  /\ clip' = IF dom.afterImage THEN [clip EXCEPT ![1] = updateSlider(p)] ELSE clip
  /\ left' = IF dom.afterImage /\ dom.handle
             THEN [left EXCEPT ![1] = updateSlider(p)]
             ELSE left
  /\ raised' = IF dom.afterImage /\ dom.handle THEN raised
               ELSE raised \cup {<<"PortfolioGallery", "TypeError">>}

\* A mousedown on the .image-container: its listener was attached when
\* PortfolioGallery's constructor ran, also when that constructor threw further
\* down. It sets isDragging, then calls updateSlider.
AppPointerDown(x) ==
  /\ Settled
  /\ dom.container /\ started >= 6
  /\ x \in InsideXs(1)
  /\ sliderEv' = Event("mousedown", 1, "container", "")
  /\ isDragging' = [isDragging EXCEPT ![1] = TRUE]
  /\ AppUpdateSlider(getPercentageFromEvent(1, x))
  /\ appEv' = "pointerdown"
  /\ UNCHANGED <<dom, started, initialized, logged, rectWidth, ariaValueNow,
                 formVars, menuVars, scrollVars, outsideAppWidgets>>

\* A mousemove anywhere on the page: the document listener, attached like the
\* one above, returns unless isDragging is set.
AppPointerMove(x) ==
  /\ Settled
  /\ dom.container /\ started >= 6
  /\ sliderEv' = Event("mousemove", 0, "none", "")
  /\ IF isDragging[1]
     THEN AppUpdateSlider(getPercentageFromEvent(1, x))
     ELSE UNCHANGED <<left, clip, raised>>
  /\ appEv' = "pointermove"
  /\ UNCHANGED <<dom, started, initialized, logged, rectWidth, isDragging,
                 ariaValueNow, formVars, menuVars, scrollVars, outsideAppWidgets>>

\* A mouseup anywhere on the page.
AppPointerUp ==
  /\ Settled
  /\ dom.container /\ started >= 6
  /\ sliderEv' = Event("mouseup", 0, "none", "")
  /\ isDragging' = [isDragging EXCEPT ![1] = FALSE]
  /\ appEv' = "pointerup"
  /\ UNCHANGED <<dom, started, initialized, logged, raised, rectWidth, left, clip,
                 ariaValueNow, formVars, menuVars, scrollVars, outsideAppWidgets>>

\* The cool-down timer of the header's initial check runs: a timer callback
\* waits until initializeApp, which set it, has returned.
AppHeaderCooldownEnds ==
  /\ Settled
  /\ HeaderCooldownEnds

\* The script starts on one of the pages; no constructor has run. A page with a
\* .contact-form has one without fields, a page with an .image-container has
\* one, untouched and without aria-valuenow; the menu is closed.
AppInit ==
  /\ dom \in Pages
  /\ started = 0
  /\ initialized = {}
  /\ logged = {}
  /\ raised = {}
  /\ appEv = "init"
  /\ form = <<>>
  /\ value = <<>>
  /\ errClass = <<>>
  /\ ariaInvalid = <<>>
  /\ errText = <<>>
  /\ clearTimer = <<>>
  /\ focus = 0
  /\ btnDisabled = FALSE
  /\ btnText = OriginalLabel
  /\ pending = <<>>
  /\ successBanners = 0
  /\ errorBanners = 0
  /\ formEv = "init"
  /\ rectWidth \in (IF dom.container THEN Widths ELSE {0})
  /\ isDragging = [s \in AppContainers |-> FALSE]
  /\ left = [s \in AppContainers |-> Unset]
  /\ clip = [s \in AppContainers |-> Unset]
  /\ ariaValueNow = [s \in AppContainers |-> Unset]
  /\ sliderEv = Event("init", 0, "none", "")
  /\ vField = <<>>
  /\ vRaw = <<>>
  /\ vResult = "unchecked"
  /\ ioAvailable = TRUE
  /\ intersecting = <<>>
  /\ lastReported = <<>>
  /\ observed = {}
  /\ queued = {}
  /\ revealed = <<>>
  /\ reveals = <<>>
  /\ revealEv = "init"
  /\ menuActive = FALSE
  /\ ariaHidden = "true"
  /\ ariaExpanded = "false"
  /\ bodyOverflow = ""
  /\ menuFocus = "body"
  /\ focusTimers = 0
  /\ resizeTimer = FALSE
  /\ innerWide = FALSE
  /\ menuEv = "init"
  /\ dWait = 0
  /\ dArmed = FALSE
  /\ dSince = 0
  /\ dArgs = "none"
  /\ dInvoked = 0
  /\ dGot = "none"
  /\ tLimit = 0
  /\ tIn = FALSE
  /\ tSince = 0
  /\ tCalled = FALSE
  /\ tGot = "none"
  /\ rateEv = <<>>
  /\ pageYOffset = 0
  /\ headerScrolled = FALSE
  /\ headerThrottle = FALSE
  /\ maxScroll = 0
  /\ tracked = {}
  /\ reported = <<>>
  /\ depthThrottle = FALSE
  /\ scrollTarget = NoTarget
  /\ scrollDue = FALSE

AppNext ==
  \/ Construct
  \/ AppSubmit
  \/ SubmitResolved
  \/ SubmitRejected
  \/ SuccessBannerTimeout
  \/ ErrorBannerTimeout
  \/ AppMenuClick
  \/ FocusTimer
  \/ \E x \in 0..rectWidth : AppPointerDown(x)
  \/ \E x \in (0 - Overshoot)..(rectWidth + Overshoot) : AppPointerMove(x)
  \/ AppPointerUp
  \/ AppHeaderCooldownEnds

AppSpec == AppInit /\ [][AppNext]_vars

\* ---------------------------------------------------- debounce and throttle

\* What a caller passes to a wrapped function.
ArgValues == {"a", "b"}

\* The step taken and, for a trigger, its arguments.
RateEvent(step, args) == [step |-> step, args |-> args]

\* One tick of the clock: the pending timers grow older. A timer that is due
\* stays due until the event loop runs it (timers may run late, never early).
Tick ==
  /\ (dArmed /\ dSince < dWait) \/ (tIn /\ tSince < tLimit)
  /\ dSince' = IF dArmed /\ dSince < dWait THEN dSince + 1 ELSE dSince
  /\ tSince' = IF tIn /\ tSince < tLimit THEN tSince + 1 ELSE tSince
  /\ rateEv' = RateEvent("tick", "none")
  /\ UNCHANGED <<dWait, dArmed, dArgs, dInvoked, dGot, tLimit, tIn, tCalled, tGot,
                 outsideRate>>

\* Mutant of DebounceTrigger: a trigger that finds the timer pending keeps it
\* and only replaces the arguments.
DebounceTriggerNoRestart(a) ==
  /\ dArmed' = TRUE
  /\ dSince' = IF dArmed THEN dSince ELSE 0
  /\ dArgs' = a
  /\ dInvoked' = 0
  /\ rateEv' = RateEvent("dTrigger", a)
  /\ UNCHANGED <<dWait, dGot, tLimit, tIn, tSince, tCalled, tGot, outsideRate>>

\* executedFunction(...args): clearTimeout(timeout), then a new timer of `wait`
\* whose callback holds these args.
DebounceTrigger(a) ==
  /\ dArmed' = TRUE
  /\ dSince' = 0
  /\ dArgs' = a
  /\ dInvoked' = 0
  /\ rateEv' = RateEvent("dTrigger", a)
  /\ UNCHANGED <<dWait, dGot, tLimit, tIn, tSince, tCalled, tGot, outsideRate>>

\* The pending timer runs `later`: func(...args) with the args of its closure.
DebounceFire ==
  /\ dArmed /\ dSince >= dWait
  /\ dArmed' = FALSE
  /\ dGot' = dArgs
  /\ dInvoked' = dInvoked + 1
  /\ rateEv' = RateEvent("dFire", "none")
  /\ UNCHANGED <<dWait, dSince, dArgs, tLimit, tIn, tSince, tCalled, tGot,
                 outsideRate>>

\* Mutant of ThrottleTrigger: inThrottle is never set.
ThrottleTriggerNoCooldown(a) ==
  /\ tGot' = a
  /\ tCalled' = TRUE
  /\ tIn' = FALSE
  /\ tSince' = 0
  /\ rateEv' = RateEvent("tInvoke", a)
  /\ UNCHANGED <<dWait, dArmed, dSince, dArgs, dInvoked, dGot, tLimit, outsideRate>>

\* The throttled function is called: outside the cool-down it calls func with
\* its arguments, sets inThrottle and the timer of `limit`; inside the cool-down
\* it returns at once and keeps nothing.
ThrottleTrigger(a) ==
  /\ IF ~tIn
     THEN /\ tGot' = a
          /\ tCalled' = TRUE
          /\ tIn' = TRUE
          /\ tSince' = 0
          /\ rateEv' = RateEvent("tInvoke", a)
     ELSE /\ rateEv' = RateEvent("tDrop", a)
          /\ UNCHANGED <<tGot, tCalled, tIn, tSince>>
  /\ UNCHANGED <<dWait, dArmed, dSince, dArgs, dInvoked, dGot, tLimit, outsideRate>>

\* The cool-down timer runs: inThrottle = false.
ThrottleTimer ==
  /\ tIn /\ tSince >= tLimit
  /\ tIn' = FALSE
  /\ rateEv' = RateEvent("tTimer", "none")
  /\ UNCHANGED <<dWait, dArmed, dSince, dArgs, dInvoked, dGot, tLimit, tSince,
                 tCalled, tGot, outsideRate>>

\* debounce(func, wait) and throttle(func, limit) have returned their wrappers:
\* no timer is pending and func was never called. The widgets are idle.
RateInit ==
  /\ dWait \in 1..MaxWait
  /\ dArmed = FALSE
  /\ dSince = 0
  /\ dArgs = "none"
  /\ dInvoked = 0
  /\ dGot = "none"
  /\ tLimit \in 1..MaxWait
  /\ tIn = FALSE
  /\ tSince = 0
  /\ tCalled = FALSE
  /\ tGot = "none"
  /\ rateEv = RateEvent("init", "none")
  /\ form = <<>>
  /\ value = <<>>
  /\ errClass = <<>>
  /\ ariaInvalid = <<>>
  /\ errText = <<>>
  /\ clearTimer = <<>>
  /\ focus = 0
  /\ btnDisabled = FALSE
  /\ btnText = OriginalLabel
  /\ pending = <<>>
  /\ successBanners = 0
  /\ errorBanners = 0
  /\ formEv = "init"
  /\ rectWidth = 0
  /\ isDragging = <<>>
  /\ left = <<>>
  /\ clip = <<>>
  /\ ariaValueNow = <<>>
  /\ sliderEv = <<>>
  /\ vField = <<>>
  /\ vRaw = <<>>
  /\ vResult = "unchecked"
  /\ ioAvailable = TRUE
  /\ intersecting = <<>>
  /\ lastReported = <<>>
  /\ observed = {}
  /\ queued = {}
  /\ revealed = <<>>
  /\ reveals = <<>>
  /\ revealEv = "init"
  /\ dom = <<>>
  /\ started = 0
  /\ initialized = {}
  /\ logged = {}
  /\ raised = {}
  /\ appEv = "init"
  /\ menuActive = FALSE
  /\ ariaHidden = "true"
  /\ ariaExpanded = "false"
  /\ bodyOverflow = ""
  /\ menuFocus = "body"
  /\ focusTimers = 0
  /\ resizeTimer = FALSE
  /\ innerWide = FALSE
  /\ menuEv = "init"
  /\ pageYOffset = 0
  /\ headerScrolled = FALSE
  /\ headerThrottle = FALSE
  /\ maxScroll = 0
  /\ tracked = {}
  /\ reported = <<>>
  /\ depthThrottle = FALSE
  /\ scrollTarget = NoTarget
  /\ scrollDue = FALSE

RateNext ==
  \/ Tick
  \/ \E a \in ArgValues : DebounceTrigger(a)
  \/ DebounceFire
  \/ \E a \in ArgValues : ThrottleTrigger(a)
  \/ ThrottleTimer

RateSpec == RateInit /\ [][RateNext]_vars

\* ------------------------------------------- scroll listeners on their own

\* HeaderScrollEffect.init has made its initial check through the throttled
\* handleScroll, which starts a cool-down; trackScrollDepth has set maxScroll
\* to 0 and reported nothing. The widgets are idle.
ScrollInit ==
  /\ pageYOffset \in Offsets
  /\ headerScrolled = (pageYOffset > ScrollThreshold)
  /\ headerThrottle = TRUE
  /\ maxScroll = 0
  /\ tracked = {}
  /\ reported = [m \in Milestones |-> 0]
  /\ depthThrottle = FALSE
  /\ scrollTarget = NoTarget
  /\ scrollDue = FALSE
  /\ form = <<>>
  /\ value = <<>>
  /\ errClass = <<>>
  /\ ariaInvalid = <<>>
  /\ errText = <<>>
  /\ clearTimer = <<>>
  /\ focus = 0
  /\ btnDisabled = FALSE
  /\ btnText = OriginalLabel
  /\ pending = <<>>
  /\ successBanners = 0
  /\ errorBanners = 0
  /\ formEv = "init"
  /\ rectWidth = 0
  /\ isDragging = <<>>
  /\ left = <<>>
  /\ clip = <<>>
  /\ ariaValueNow = <<>>
  /\ sliderEv = <<>>
  /\ vField = <<>>
  /\ vRaw = <<>>
  /\ vResult = "unchecked"
  /\ ioAvailable = TRUE
  /\ intersecting = <<>>
  /\ lastReported = <<>>
  /\ observed = {}
  /\ queued = {}
  /\ revealed = <<>>
  /\ reveals = <<>>
  /\ revealEv = "init"
  /\ dom = <<>>
  /\ started = 0
  /\ initialized = {}
  /\ logged = {}
  /\ raised = {}
  /\ appEv = "init"
  /\ menuActive = FALSE
  /\ ariaHidden = "true"
  /\ ariaExpanded = "false"
  /\ bodyOverflow = ""
  /\ menuFocus = "body"
  /\ focusTimers = 0
  /\ resizeTimer = FALSE
  /\ innerWide = FALSE
  /\ menuEv = "init"
  /\ dWait = 0
  /\ dArmed = FALSE
  /\ dSince = 0
  /\ dArgs = "none"
  /\ dInvoked = 0
  /\ dGot = "none"
  /\ tLimit = 0
  /\ tIn = FALSE
  /\ tSince = 0
  /\ tCalled = FALSE
  /\ tGot = "none"
  /\ rateEv = <<>>

ScrollNext ==
  \/ \E y \in Offsets : ScrollTo(y)
  \/ HeaderCooldownEnds
  \/ DepthCooldownEnds

ScrollSpec == ScrollInit /\ [][ScrollNext]_vars

\* ------------------------------------------------------ claims: the sliders

\* 0 <= p <= 100, stated on the fraction itself.
InRange(p) == p[1] >= 0 /\ p[1] <= 100 * p[2]

\* The fraction r equals 100 * x / w.
IsPercentOf(r, x, w) == r[1] * w = 100 * x * r[2]

\* The position the claims expect for a pointer at container-relative x in a
\* container of width w: 100 * x / w, 0 left of the container, 100 right of it.
ExpectedAt(r, x, w) ==
  IF x < 0 THEN r = Whole(0)
  ELSE IF x > w THEN r = Whole(100)
  ELSE IsPercentOf(r, x, w)

PointerDown(ev) == ev.type \in {"mousedown", "touchstart"}
PointerMove(ev) == ev.type \in {"mousemove", "touchmove"}
PointerUp(ev) == ev.type \in {"mouseup", "touchend"}

\* C3: in every reachable state the percentage written to the clip boundary and
\* to the handle offset lies in [0, 100], and updateSlider(p) writes
\* max(0, min(100, p)): -10 gives 0, 150 gives 100, 42 gives 42.
C3_PercentageClamped ==
  /\ \A s \in Sliders :
       /\ left[s] # Unset => InRange(left[s])
       /\ clip[s] # Unset => InRange(clip[s])
  /\ updateSlider(Whole(0 - 10)) = Whole(0)
  /\ updateSlider(Whole(150)) = Whole(100)
  /\ updateSlider(Whole(42)) = Whole(42)
  /\ \A n \in (0 - 10)..150 :
       updateSlider(Whole(n)) = Whole(IF n < 0 THEN 0 ELSE IF n > 100 THEN 100 ELSE n)

\* Witness of C3: one move, with both sliders dragging, has left both at 100, so
\* the raw percentage of the left slider was 200 or more.
C3_Witness ==
  /\ sliderEv.type = "mousemove"
  /\ \A s \in Sliders : isDragging[s] /\ left[s] = Whole(100) /\ clip[s] = Whole(100)

\* C4 as claimed: from every current percentage p in [0, 100], 0 and 100
\* included, ArrowRight sets min(100, p + 5) and ArrowLeft sets max(0, p - 5),
\* whether or not a drag session is active.
C4_ArrowKeysStepFromEveryPosition ==
  [][ \A s \in Sliders :
        (sliderEv'.type = "keydown" /\ sliderEv'.slider = s /\ left[s] # Unset) =>
          /\ sliderEv'.key = "ArrowRight" =>
               left'[s] = FracMin(Whole(100), FracPlus(left[s], 5))
          /\ sliderEv'.key = "ArrowLeft" =>
               left'[s] = FracMax(Whole(0), FracPlus(left[s], 0 - 5)) ]_vars

\* C5 as claimed: after every position update aria-valuenow equals the clamped
\* percentage applied to the clip boundary and the handle offset.
C5_AriaValueNowFollowsPosition ==
  \A s \in Sliders :
    left[s] # Unset => ariaValueNow[s] = left[s] /\ ariaValueNow[s] = clip[s]

\* C6: a move changes a slider's position only while its drag session is active.
\* The session starts at a pointer-down inside the container and ends at the next
\* pointer-up or touch end; a move before any pointer-down or after the end of
\* the session leaves the clip boundary and the handle offset unchanged.
C6_MoveOnlyWhileDragging ==
  [][ \A s \in Sliders :
        /\ (PointerMove(sliderEv') /\ ~isDragging[s])
             => left'[s] = left[s] /\ clip'[s] = clip[s]
        /\ (PointerDown(sliderEv') /\ sliderEv'.slider = s) => isDragging'[s]
        /\ PointerUp(sliderEv') => ~isDragging'[s]
        /\ isDragging'[s] # isDragging[s]
             => \/ PointerDown(sliderEv') /\ sliderEv'.slider = s
                \/ PointerUp(sliderEv') ]_vars

\* Witness of C6: a move arrives after a session has ended (the slider has a
\* position and no slider is dragging).
C6_Witness ==
  /\ PointerMove(sliderEv)
  /\ \A s \in Sliders : ~isDragging[s]
  /\ \E s \in Sliders : left[s] # Unset

\* C7 as claimed: a pointer press on the handle never starts a drag session of
\* the enclosing container and leaves the position unchanged.
C7_HandlePressStartsNoDrag ==
  [][ (PointerDown(sliderEv') /\ sliderEv'.part = "handle")
        => isDragging' = isDragging /\ left' = left /\ clip' = clip ]_vars

\* C7 as amended: a click on the handle stops at the handle and changes neither
\* the is-dragging flags nor the positions; the pointer-down on the handle that
\* precedes it bubbles to the container, starts its drag session and sets its
\* position, as a pointer-down elsewhere in the container does.
C7_HandleClickStopped ==
  [][ /\ sliderEv'.type = "click"
        => isDragging' = isDragging /\ left' = left /\ clip' = clip
      /\ (PointerDown(sliderEv') /\ sliderEv'.part = "handle")
        => /\ isDragging'[sliderEv'.slider]
           /\ left'[sliderEv'.slider] # Unset
           /\ clip'[sliderEv'.slider] = left'[sliderEv'.slider] ]_vars

\* Witness of C7: the mouse went down on the handle, and the container is dragging
\* with its position written.
C7_Witness ==
  /\ sliderEv.type = "mousedown"
  /\ sliderEv.part = "handle"
  /\ isDragging[sliderEv.slider]
  /\ left[sliderEv.slider] # Unset

\* C8: events directed at one slider change only that slider. The flag or the
\* position of a slider B changes only through an event in B itself or while B's
\* own session, started by a pointer-down in B, is active.
C8_SlidersIndependent ==
  [][ \A b \in Sliders :
        /\ (isDragging'[b] # isDragging[b] \/ left'[b] # left[b] \/ clip'[b] # clip[b])
             => sliderEv'.slider = b \/ isDragging[b]
        /\ (isDragging'[b] /\ ~isDragging[b])
             => PointerDown(sliderEv') /\ sliderEv'.slider = b ]_vars

\* Witness of C8: slider 1 is dragged by moves while slider 2 has never been written.
C8_Witness ==
  /\ sliderEv.type = "mousemove"
  /\ isDragging[1] /\ left[1] = Whole(100)
  /\ ~isDragging[2] /\ left[2] = Unset /\ clip[2] = Unset

\* C9: a pointer-down at container-relative x in a container of width w > 0
\* sets the percentage to clamp(100 * x / w): 0 at x = 0, 100 at x = w; during a
\* drag an x left of the container gives 0 and an x right of it gives 100.
C9_PointerPercentage ==
  [][ \A x \in ClientXs :
        /\ (/\ PointerDown(sliderEv')
            /\ \/ MouseDown(sliderEv'.slider, sliderEv'.part, x)
               \/ TouchStart(sliderEv'.slider, sliderEv'.part, x))
             => LET s == sliderEv'.slider
                IN  /\ ExpectedAt(left'[s], x - RectLeft(s), rectWidth)
                    /\ ExpectedAt(clip'[s], x - RectLeft(s), rectWidth)
                    /\ (x = RectLeft(s) => left'[s] = Whole(0))
                    /\ (x = RectLeft(s) + rectWidth => left'[s] = Whole(100))
        /\ (PointerMove(sliderEv') /\ (MouseMove(x) \/ TouchMove(x)))
             => \A s \in Sliders :
                  isDragging[s] =>
                    /\ ExpectedAt(left'[s], x - RectLeft(s), rectWidth)
                    /\ ExpectedAt(clip'[s], x - RectLeft(s), rectWidth) ]_vars

\* Witness of C9: a pointer-down at the right edge of the right slider (x = w)
\* has set it to 100, and a drag has pulled the left slider to 0.
C9_Witness ==
  /\ PointerDown(sliderEv)
  /\ sliderEv.slider = 2
  /\ left[2] = Whole(100)
  /\ isDragging[1] /\ left[1] = Whole(0)

\* --------------------------------------------------- claims: the contact form

\* The first field of a set of fields in document order, 0 for the empty set.
FirstOf(S) == IF S = {} THEN 0 ELSE CHOOSE i \in S : \A j \in S : i <= j

\* The fields whose current value fails validation.
InvalidFields == {i \in Fields : ~FieldIsValid(form[i], value[i])}

\* A submit event has been handled by this step.
SubmitHandled == formEv' \in {"submit", "rejected"}

\* C1 as claimed: when a required field fails validation at a submit event, no
\* submission is started and the focus moves to the first invalid field of the
\* form (the first field failing validation, counted among all fields or among
\* the required ones).
C1_InvalidSubmitFocusesFirstInvalid ==
  [][ (SubmitHandled /\ InvalidFields \cap RequiredFields # {})
        => /\ pending' = pending
           /\ btnDisabled' = btnDisabled
           /\ \/ focus' = FirstOf(InvalidFields)
              \/ focus' = FirstOf(InvalidFields \cap RequiredFields) ]_vars

\* C2 as claimed: while a submission is pending the submit control is disabled
\* and shows the pending label; once it has resolved the control is enabled and
\* shows its original label, after a success and after a failure.
C2_ButtonLockedWhilePending ==
  /\ pending # <<>> => btnDisabled /\ btnText = PendingLabel
  /\ pending = <<>> => ~btnDisabled /\ btnText = OriginalLabel

\* The step resumes the oldest pending submitForm call: its submission has
\* succeeded or failed. (A step of the page that is none of the form's, a
\* scroll event or a cool-down timer, leaves formEv as the last handler set it.)
SettlesOne == pending # <<>> /\ pending' = Tail(pending)

\* C10: a successful submission resets every field value and shows a success
\* banner; a failed one shows an error banner and every field keeps the value the
\* user entered.
C10_ResetOnSuccessOnly ==
  [][ /\ SettlesOne /\ formEv' = "success"
        => /\ \A i \in Fields : value'[i] = DefaultValue(form[i])
           /\ successBanners' = successBanners + 1
           /\ errorBanners' = errorBanners
      /\ SettlesOne /\ formEv' = "failure"
        => /\ value' = value
           /\ errorBanners' = errorBanners + 1
           /\ successBanners' = successBanners ]_vars

\* Witness of C10: a submission has failed, the error banner is up and the fields
\* still hold what the user typed.
C10_Witness ==
  /\ formEv = "failure"
  /\ errorBanners > 0
  /\ \A i \in Fields : value[i] # DefaultValue(form[i])

\* The controller's Idle state: no submission is pending and the submit
\* control is enabled with the label of the markup.
Idle == pending = <<>> /\ ~btnDisabled /\ btnText = OriginalLabel

\* C11: every submission that enters the Submitting state eventually leaves it
\* and the controller returns to Idle: whenever a submission is pending, the
\* controller is idle at some later time.
C11_SubmissionSettles == (pending # <<>>) ~> Idle

\* The three error indicators of field i, as booleans; a field whose markup has
\* no #<name>-error element has no message indicator.
ClassSaysInvalid(i) == errClass[i]
AriaSaysInvalid(i) == ariaInvalid[i] = "true"
MessageSaysInvalid(i) == errText[i] # ""

\* C12: in every reachable state the error class of a field, its aria-invalid
\* attribute and the text of its error-message element agree (class present iff
\* aria-invalid is 'true' iff the message is non-empty), and no step changes one
\* of the indicators without the others.
C12_ErrorIndicatorsAgree ==
  /\ [](\A i \in Fields :
          /\ ClassSaysInvalid(i) <=> AriaSaysInvalid(i)
          /\ form[i].hasErrorEl => (ClassSaysInvalid(i) <=> MessageSaysInvalid(i)))
  /\ [][\A i \in Fields :
          /\ (ClassSaysInvalid(i)' # ClassSaysInvalid(i))
               <=> (AriaSaysInvalid(i)' # AriaSaysInvalid(i))
          /\ form[i].hasErrorEl =>
               ((ClassSaysInvalid(i)' # ClassSaysInvalid(i))
                 <=> (MessageSaysInvalid(i)' # MessageSaysInvalid(i)))]_vars

\* showError has marked one field with all three indicators and clearErrors has
\* cleared another.
C12_Witness ==
  \E i, j \in Fields :
    /\ form[i].hasErrorEl
    /\ errClass[i] /\ ariaInvalid[i] = "true" /\ errText[i] # ""
    /\ ~errClass[j] /\ ariaInvalid[j] = "false" /\ errText[j] = ""

\* ---------------------------------------------------- claims: the validator

\* The value without its surrounding white space, found by position.
Stripped(s) ==
  IF \A k \in 1..Len(s) : IsSpace(s[k]) THEN <<>>
  ELSE LET inked == {k \in 1..Len(s) : ~IsSpace(s[k])}
           a == CHOOSE k \in inked : \A j \in inked : k <= j
           b == CHOOSE k \in inked : \A j \in inked : k >= j
       IN  SubSeq(s, a, b)

\* local@domain.tld: no white space, exactly one "@" after a non-empty local
\* part, and in the domain a "." with text on both sides.
HasEmailShape(v) ==
  /\ \A k \in 1..Len(v) : ~IsSpace(v[k])
  /\ Cardinality({k \in 1..Len(v) : v[k] = "@"}) = 1
  /\ LET at == CHOOSE k \in 1..Len(v) : v[k] = "@"
     IN  /\ at > 1
         /\ \E d \in (at + 2)..(Len(v) - 1) : v[d] = "."

\* The value without spaces, hyphens and parentheses.
Unpunctuated(s) == SelectSeq(s, LAMBDA c : ~IsSpace(c) /\ c \notin {"-", "(", ")"})

\* An optional prefix +359, 359 or 0, then 8 or 9 digits and nothing else.
HasPhoneShape(s) ==
  \E p \in {<<>>, <<"+", "3", "5", "9">>, <<"3", "5", "9">>, <<"0">>}, n \in {8, 9} :
    /\ Len(s) = Len(p) + n
    /\ SubSeq(s, 1, Len(p)) = p
    /\ \A k \in (Len(p) + 1)..Len(s) : s[k] \in Digits

WasValidated == vResult # "unchecked"

\* C13: validateField applies its rules first-match-wins in the order
\* required-empty, email, tel, name-length: a required field whose trimmed value
\* is empty gets the 'required' message whatever its kind, a field that triggers
\* no rule is valid, and the call always ends with a result.
C13_FirstMatchWins ==
  WasValidated =>
    LET v  == Stripped(vRaw)
        r1 == vField.required /\ v = <<>>
        r2 == vField.type = "email" /\ v # <<>> /\ ~HasEmailShape(v)
        r3 == vField.type = "tel" /\ v # <<>> /\ ~HasPhoneShape(Unpunctuated(v))
        r4 == vField.name = "name" /\ v # <<>> /\ Len(v) < 2
    IN  /\ vResult \in {"", "required", "email", "phone", "short"}
        /\ r1 => vResult = "required"
        /\ ~r1 /\ r2 => vResult = "email"
        /\ ~r1 /\ ~r2 /\ r3 => vResult = "phone"
        /\ ~r1 /\ ~r2 /\ ~r3 /\ r4 => vResult = "short"
        /\ ~r1 /\ ~r2 /\ ~r3 /\ ~r4 => vResult = ""

\* Two rules fire on a name field of type email holding one letter: the earlier
\* one, the email rule, gives the message.
C13_Witness ==
  /\ vField.name = "name" /\ vField.type = "email"
  /\ vRaw = <<"a">>
  /\ vResult = "email"

\* C14 as stated: every non-empty value of an email field is valid iff the
\* value has the shape local@domain.tld, with no white space anywhere.
C14_EmailShapeOfValue ==
  WasValidated /\ vField.type = "email" /\ vRaw # <<>> =>
    (vResult = "" <=> HasEmailShape(vRaw))

\* C14: the value of an email field that is non-empty once its surrounding
\* white space is stripped is valid iff the stripped value has the shape
\* local@domain.tld; "a@b.c" is valid and "not-an-email" is not.
C14_EmailShapeOfTrimmedValue ==
  WasValidated /\ vField.type = "email" /\ Stripped(vRaw) # <<>> =>
    /\ vResult = "" <=> HasEmailShape(Stripped(vRaw))
    /\ vRaw = ExampleABC => vResult = ""
    /\ vRaw = ExampleNotAnEmail => vResult = "email"

\* An address pasted with a leading white-space character was accepted.
C14_Witness ==
  /\ vField.type = "email"
  /\ vRaw = PaddedABC
  /\ vResult = ""

\* C15 as stated: every non-empty value of a tel field is valid iff, without
\* its spaces, hyphens and parentheses, it is an optional prefix and 8 or 9 digits.
C15_PhoneShapeOfValue ==
  WasValidated /\ vField.type = "tel" /\ vRaw # <<>> =>
    (vResult = "" <=> HasPhoneShape(Unpunctuated(vRaw)))

\* C15: the value of a tel field that is non-empty once its surrounding white
\* space is stripped is valid iff, without its spaces, hyphens and parentheses,
\* it is an optional prefix +359, 359 or 0 followed by 8 or 9 digits and nothing
\* else; "0888123456" is valid and "123" is not.
C15_PhoneShapeOfTrimmedValue ==
  WasValidated /\ vField.type = "tel" /\ Stripped(vRaw) # <<>> =>
    /\ vResult = "" <=> HasPhoneShape(Unpunctuated(vRaw))
    /\ vRaw = ExampleMobile => vResult = ""
    /\ vRaw = Example123 => vResult = "phone"

\* A number written with a parenthesis and a hyphen was accepted.
C15_Witness ==
  /\ vField.type = "tel"
  /\ \E j, k \in 1..Len(vRaw) : vRaw[j] = "(" /\ vRaw[k] = "-"
  /\ vResult = ""

\* C16: on a name field (one that is neither an email nor a tel input) a value
\* whose trimmed length is 1 gets the 'too short' message and a value whose
\* trimmed length is 2 or more is valid; the length is that of the value
\* without its surrounding white space. "A" is invalid and "Al" is valid.
C16_NameLength ==
  WasValidated /\ vField.name = "name" /\ vField.type = "text" =>
    /\ Len(Stripped(vRaw)) = 1 => vResult = "short"
    /\ Len(Stripped(vRaw)) >= 2 => vResult = ""
    /\ vRaw = ExampleA => vResult = "short"
    /\ vRaw = ExampleAl => vResult = ""

\* A single letter between two white-space characters was found too short.
C16_Witness ==
  /\ vField.name = "name" /\ vField.type = "text"
  /\ Len(vRaw) = 3 /\ Len(Stripped(vRaw)) = 1
  /\ vResult = "short"

\* ------------------------------------------------ claims: the reveal observer

\* C17: a reveal target is revealed at most once. The callback that reports it
\* as intersecting reveals it and unobserves it; from then on no callback
\* reveals it again, and a revealed target never returns to the unrevealed state.
C17_RevealedAtMostOnce ==
  /\ [](\A t \in Targets :
          /\ reveals[t] <= 1
          /\ ioAvailable /\ revealed[t] => t \notin observed /\ reveals[t] = 1)
  /\ [][\A t \in Targets :
          /\ revealed[t] => revealed'[t] /\ reveals'[t] = reveals[t]
          /\ revealEv' = "callback" /\ queued' = {} /\ <<t, "in">> \in queued
               => revealed'[t] /\ t \notin observed']_vars

\* A target was revealed by a callback and has left the viewport since, which a
\* later frame has seen.
C17_Witness ==
  \E t \in Targets :
    /\ ioAvailable
    /\ revealed[t] /\ reveals[t] = 1
    /\ ~intersecting[t]
    /\ revealEv = "frame"

\* ------------------------------------------------------ claims: the startup

\* The components whose constructor threw.
Thrown == {e[1] : e \in logged}

\* C18: when a component's constructor throws during startup, the exception is
\* caught and logged, and every other component, those after it included, is
\* still initialized.
C18_ThrowingComponentIsolated ==
  Settled /\ logged # {} =>
    \A k \in 1..Len(Components) :
      Components[k] \notin Thrown => Components[k] \in initialized

\* C19: a component whose required element is absent from the page does nothing
\* and raises no error, neither while it is constructed nor in a later handler.
C19_MissingElementsAreNoOps ==
  dom.observerApi => logged = {} /\ raised = {}

\* --------------------------------------------------------- claims: the menu

\* C20: once no focus timer is pending, the focus is inside the overlay when
\* the menu is open, and on the trigger, not on an element of the closed
\* overlay, when the menu has been closed; also when the close came before the
\* delayed focus of the open had run.
C20_FocusSettles ==
  [][LET timerRan == focusTimers' < focusTimers
         closed   == menuActive /\ ~menuActive'
     IN  focusTimers' = 0 =>
           /\ timerRan /\ menuActive' => menuFocus' \in InOverlay
           /\ (timerRan \/ closed) /\ ~menuActive' => menuFocus' = "trigger"]_vars

\* The step is the user moving the focus into a form field, which no listener
\* of the menu sees; every other step of the menu's page sets menuEv.
FieldTakesFocus == focus' # 0 /\ focus' # focus

\* C21: while the menu is open, an Escape keydown, a click on the close button,
\* on a menu link or on the overlay itself, and the debounced resize callback
\* running with the window wider than 768px each close it; an Escape keydown, a
\* resize and its debounced callback while the menu is closed leave the menu
\* as it is.
C21_ClosingEvents ==
  [][LET e == IF FieldTakesFocus THEN "focus" ELSE menuEv'.event
     IN  /\ menuActive /\ e \in {"escape", "closeBtn", "link", "backdrop"}
              => ~menuActive' /\ menuEv'.call = "closeMenu"
         /\ menuActive /\ e = "resizeTimer" /\ innerWide
              => ~menuActive' /\ menuEv'.call = "closeMenu"
         /\ ~menuActive /\ e \in {"escape", "resize", "resizeTimer"}
              => UNCHANGED <<menuActive, ariaHidden, ariaExpanded, bodyOverflow,
                             menuFocus, focusTimers>>]_vars

\* The debounced resize callback has closed the menu on a wide window.
C21_Witness ==
  /\ menuEv = MenuEvent("resizeTimer", "closeMenu")
  /\ ~menuActive /\ innerWide /\ ~resizeTimer

\* C30: the four indicators of the menu agree in every reachable state: the
\* overlay has class 'active' iff its aria-hidden is 'false' iff the trigger's
\* aria-expanded is 'true' iff body overflow is 'hidden'.
C30_IndicatorsAgree ==
  /\ menuActive <=> ariaHidden = "false"
  /\ menuActive <=> ariaExpanded = "true"
  /\ menuActive <=> bodyOverflow = "hidden"
  /\ ariaHidden \in {"true", "false"}
  /\ ariaExpanded \in {"true", "false"}

\* The menu was opened, closed and opened again, and shows all four indicators.
C30_Witness ==
  /\ menuActive /\ ariaHidden = "false" /\ ariaExpanded = "true"
  /\ bodyOverflow = "hidden"
  /\ menuFocus = "trigger"
  /\ menuEv.call = "openMenu"

\* C22: when IntersectionObserver is unavailable at startup, every reveal
\* target is revealed during initialization and stays so, and no observer
\* exists: nothing is observed and no entry is ever queued or delivered.
C22_FallbackRevealsAll ==
  ~ioAvailable =>
    /\ \A t \in Targets : revealed[t] /\ reveals[t] = 1
    /\ observed = {}
    /\ queued = {}
    /\ revealEv \in {"init", "scroll"}

\* Without the observer, the page was scrolled after the fallback had revealed
\* every target.
C22_Witness ==
  /\ ~ioAvailable
  /\ revealEv = "scroll"
  /\ \A t \in Targets : revealed[t]

\* ------------------------------------------- claims: the form under races

\* C26: an error state set by validation is not removed by a clear-errors
\* callback that an earlier input event scheduled. After a step that moved the
\* focus (its blur listener validated the field that lost it) no input event has
\* happened yet, so every debounce timer still armed was armed before the last
\* validation of its field: when such a timer fires next, no field loses its
\* error state.
C26_StaleClearKeepsError ==
  [][formEv = "focus" /\ formEv' = "clear"
       => \A i \in Fields : errClass[i] => errClass'[i]]_vars

\* C27: for every sequence of submit events, overlapping ones included, the
\* submit control is disabled whenever a submission is pending, and once none
\* is pending it is enabled and shows the label it had before the first
\* submission.
C27_ButtonUnderOverlappingSubmits ==
  /\ Len(pending) >= 1 => btnDisabled
  /\ Len(pending) = 0 => ~btnDisabled /\ btnText = OriginalLabel

\* C29: no submission is started while a field of the form is in the error
\* state: a submit event handled while some field, required or not, carries the
\* error state starts none.
C29_NoSubmitWhileFieldInError ==
  [][formEv' = "submit" /\ Len(pending') = Len(pending) + 1
       => \A i \in Fields : ~errClass'[i]]_vars

\* ------------------------------------------ claims: debounce and throttle

\* C23: a debounced function with wait W calls its callback only when W has
\* passed since the last trigger, so never while triggers keep arriving less
\* than W apart; every trigger restarts the timer; and after the last trigger
\* the callback is called exactly once, with the arguments of that trigger: at
\* any moment after a trigger either the timer is pending and no call was made,
\* or one call was made, with those arguments.
C23_DebounceQuietPeriod ==
  /\ [](dArgs # "none" =>
          \/ dArmed /\ dInvoked = 0
          \/ ~dArmed /\ dInvoked = 1 /\ dGot = dArgs)
  /\ [][LET e == rateEv'
         IN  /\ dInvoked' > dInvoked =>
                  dArmed /\ dSince >= dWait /\ dGot' = dArgs /\ e.step = "dFire"
             /\ e.step = "dTrigger" =>
                  dArmed' /\ dSince' = 0 /\ dArgs' = e.args /\ dGot' = dGot]_vars

\* The callback ran once after a burst ended with the arguments "b".
C23_Witness ==
  /\ rateEv.step = "dFire"
  /\ dInvoked = 1
  /\ dGot = "b" /\ dArgs = "b"
  /\ dSince = dWait

\* C24: a throttled function with interval L calls its callback at once on a
\* trigger outside the cool-down, with that trigger's arguments; a trigger
\* inside the cool-down is dropped (nothing is kept of it and no timer calls
\* the callback later); and between two calls of the callback at least L passes.
C24_ThrottleFloor ==
  [][LET e == rateEv'
     IN  /\ e.step \in {"tInvoke", "tDrop"} => (e.step = "tInvoke" <=> ~tIn)
         /\ e.step = "tInvoke" =>
              /\ tGot' = e.args /\ tCalled'
              /\ tCalled => tSince >= tLimit
         /\ e.step = "tDrop" => UNCHANGED <<tGot, tCalled, tIn, tSince>>
         /\ e.step \notin {"tInvoke"} => UNCHANGED <<tGot, tCalled>>]_vars

\* A trigger with the arguments "b" was dropped during the cool-down that the
\* call with "a" started.
C24_Witness ==
  /\ rateEv = RateEvent("tDrop", "b")
  /\ tIn /\ tCalled /\ tGot = "a"

\* ---------------------------------------------- claims: the scroll listeners

\* C25: maxScroll never decreases over any sequence of scroll events, a scroll
\* to a depth not above it leaves it unchanged, and each of the milestones 25,
\* 50, 75 and 90 is reported at most once.
C25_MaxScrollMonotone ==
  /\ [](\A m \in Milestones :
          /\ reported[m] <= 1
          /\ reported[m] = 1 <=> m \in tracked)
  /\ [][maxScroll' >= maxScroll]_vars
  /\ [][ScrollPercent(pageYOffset') <= maxScroll => maxScroll' = maxScroll]_vars

\* The page was scrolled to the bottom and back to the top: the maximum stays
\* and every milestone was reported.
C25_Witness ==
  /\ pageYOffset = 0
  /\ maxScroll = 100
  /\ \A m \in Milestones : reported[m] = 1

\* C28: once scrolling has stopped and every throttle cool-down has expired,
\* the header carries 'scrolled' iff the scroll offset is above 50 pixels.
C28_HeaderFollowsScroll ==
  ~headerThrottle /\ ~depthThrottle =>
    (headerScrolled <=> pageYOffset > ScrollThreshold)

====
